---- MODULE Spec2Model ----
(***************************************************************************)
(* Model of the execution-planning and scheduling core of the AutoAgent    *)
(* orchestrator (src/src/services/orchestrator.ts, second Orchestrator     *)
(* definition, lines 611-1467):                                            *)
(*   - createPLimit, the concurrency limiter;                              *)
(*   - Orchestrator.createExecutionPlan, the dependency grouper;           *)
(*   - Orchestrator.processTask / executePlan / executeSubTask, the task   *)
(*     state machine and the subtask executor.                             *)
(***************************************************************************)
EXTENDS Integers, Sequences, FiniteSets, TLC

(***************************************************************************)
(* Bounds of the model.                                                    *)
(***************************************************************************)
\* number of operations submitted to a limiter in the limiter specification
MaxOps == 5
\* largest concurrency a limiter is constructed with in the limiter specification
MaxConcurrency == 2
\* number of subtasks handed to createExecutionPlan
MaxSubTasks == 3
\* number of dependencies of one subtask of a task that is executed
MaxDeps == 1

VARIABLES
    \* ---- createPLimit closure state ----
    concurrency,    \* the argument of createPLimit
    activeCount,    \* let activeCount
    queue,          \* const queue (wrappedFn closures, named by their operation)
    opState,        \* operation -> "new" | "queued" | "running" | "resolved" | "rejected"
    inRun,          \* operations whose run() frame has not yet executed its finally
    startOrder,     \* operations in the order their fn() was invoked
    nextOp,         \* the next operation to be submitted (submission order = id order)
    \* ---- createExecutionPlan ----
    subTasks,       \* the argument: a sequence of SubTask records
    completed,      \* const completed = new Set<string>()
    groups,         \* const groups: string[][]
    planPc,         \* "idle" | "loop" (at the while test) | "done" (returned)
    \* ---- Orchestrator: one task in processTask ----
    useRealLLM,     \* this.useRealLLM
    listenerThrows, \* whether a listener is subscribed that may throw when it is called
    taskStatus,     \* task.status ("none": not yet submitted)
    startedAt,      \* task.startedAt as a logical time (0: undefined)
    pc,             \* the await at which processTask (or executePlan) stands
    groupIdx,       \* the loop variable i of executePlan, counted from 1
    stStatus,       \* subTask.status of the subtask at each position
    stPc,           \* the await at which each executeSubTask call stands
    statusSeq,      \* history: the statuses stored in task.status, repetitions merged
    observed,       \* history: the statuses delivered to listeners, repetitions merged
    result,         \* task.result, as far as aggregateResults reads the subtasks
    completedAt,    \* task.completedAt as a logical time (0: undefined)
    taskLogLevels,  \* the levels of the entries of task.logs that carry no subTaskId
    llmFailed,      \* history: api.decomposeTaskWithKimi threw or its result was malformed
    templateKey,    \* what decomposeTaskFallback read of the description (NoKey: nothing)
    \* ---- Orchestrator.executeSubTask: the calls, their subtasks and agents ----
    agentCode,      \* call -> whether agent.code of the bound agent is non-empty
    agentStatus,    \* call -> agent.status
    agentError,     \* call -> whether agent.error has been set
    output,         \* call -> where subTask.output was taken from ("none": not set)
    primaryCalls,   \* history: call -> number of invocations of api.executeWithKimi
    sandboxCalls,   \* history: call -> number of invocations of api.executeInSandbox
    primaryOutcome, \* history: call -> "none" | "pending" | "returned" | "threw"
    sandboxOutcome, \* history: call -> "none" | "pending" | "returned" | "threw"
                    \*   | "unsuccessful" (returned a result with success: false)
    callOutcome,    \* call -> "pending" | "resolved" | "rejected", the promise of the call
    logs,           \* call -> the entries of task.logs with the subTaskId of the call, in order
    \* ---- Orchestrator.discoverOrGenerateAgents ----
    githubAgents,   \* the ids of the agents githubSearcher.searchAgents returned, in order
    suitable,       \* <<github agent, subtask>> -> isAgentSuitableForSubtask
    agents,         \* const agents: the ids of the agents pushed so far
    taskAgents,     \* task.agents (ids)
    agentId,        \* subtask -> subTask.agentId (NoAgent: not set)
    discPc,         \* where discoverOrGenerateAgents stands
    discIdx,        \* the loop variable i, counted from 1
    \* ---- Orchestrator.subscribe / notifyListeners ----
    listeners,      \* this.listeners: the entries of the Set in insertion order
                    \* (0: an entry deleted while the Set is being iterated)
    cursor,         \* the position of the Set iterator of notifyListeners (0: none)
    notifyState,    \* "idle" | "running" | "returned" | "threw"
    invoked,        \* history: listener -> number of calls in the latest notification
    unsubCalled,    \* history: listeners whose unsubscribe was called after they subscribed
    stable,         \* history: listeners subscribed throughout the latest notification
    \* ---- the server's createPLimit ----
    server,         \* the closure of the limiter: concurrency, activeCount, queue, and
                    \* per tool call its state, its run() frame, the order of starts
    \* ---- ToolExecutor.execute ----
    toolName,       \* the tool of the call
    args,           \* the file-name arguments of the call: filename, output_filename
    validationError, \* what _validateArgs returned ("null": no error, "none": not called)
    toolRan,        \* whether the tool was executed
    \* ---- Orchestrator.deleteTask against a task that is being processed ----
    deletion,       \* inTasks: this.tasks holds the task; authenticated; the positions
                    \* of deleteTask, processTask and the executeSubTask calls; history:
                    \* the snapshots delivered, and those delivered after deleteTask returned
    \* ---- the server's POST /api/agent/execute-stream ----
    stream,         \* the position of the handler, the tool calls and their states,
                    \* history: the events written, and those written after res.end()
    \* ---- the useAgentStream hook ----
    hook,           \* isLoading, abortControllerRef.current (0: null), the requests
    \* ---- the SSE parse loop of useAgentStream ----
    sse,            \* the events sent, the bytes not yet read, buffer, and history:
                    \* the events applied to the state
    \* ---- DeepSeekService.chatCompletion ----
    deepseek        \* the position of the retry loop, attempt, history: the errors caught

limVars == <<concurrency, activeCount, queue, opState, inRun, startOrder, nextOp>>
planVars == <<subTasks, completed, groups, planPc>>

reportVars == <<result, completedAt, taskLogLevels, llmFailed, templateKey>>

taskVars == <<useRealLLM, listenerThrows, taskStatus, startedAt, pc, groupIdx, stStatus, stPc, statusSeq, observed,
              reportVars>>

execVars == <<agentCode, agentStatus, agentError, output, primaryCalls, sandboxCalls,
              primaryOutcome, sandboxOutcome, callOutcome, logs>>

discVars == <<githubAgents, suitable, agents, taskAgents, agentId, discPc, discIdx>>

busVars == <<listeners, cursor, notifyState, invoked, unsubCalled, stable>>

\* the variables of the detailed models of single operations
validateVars == <<toolName, args, validationError, toolRan>>

\* the variables of the models of the server and of the front end
serviceVars == <<deletion, stream, hook, sse, deepseek>>

detailVars == <<execVars, discVars, busVars, server, validateVars, serviceVars>>

\* the variables of the models of the orchestrator, its limiters and tools
orchestratorVars == <<limVars, planVars, taskVars, execVars, discVars, busVars, server,
                      validateVars>>

vars == <<limVars, planVars, taskVars, detailVars>>

Ops == 1..MaxOps

Settled == {"resolved", "rejected"}

\* operations whose fn() has been invoked and has not yet settled
InFlight == {op \in Ops : opState[op] = "running"}

(***************************************************************************)
(* createPLimit (orchestrator.ts 619-660)                                  *)
(***************************************************************************)

\* the closure state as one value
Lim ==
    [activeCount |-> activeCount, queue |-> queue, opState |-> opState,
     inRun |-> inRun, startOrder |-> startOrder]

SetLim(L) ==
    /\ activeCount' = L.activeCount
    /\ queue' = L.queue
    /\ opState' = L.opState
    /\ inRun' = L.inRun
    /\ startOrder' = L.startOrder

\* limit(fn), lines 642-659: the executor of the returned promise runs
\* synchronously; run() (633-640) increments activeCount and invokes fn up to
\* its first await, otherwise the wrapped function is pushed on the queue.
limit(L, op) ==
    IF L.activeCount < concurrency
    THEN [L EXCEPT !.activeCount = @ + 1,
                   !.inRun = @ \cup {op},
                   !.opState[op] = "running",
                   !.startOrder = Append(@, op)]
    ELSE [L EXCEPT !.queue = Append(@, op),
                   !.opState[op] = "queued"]

\* wrappedFn, lines 644-651: the operation settles and wrappedFn resolves or
\* rejects the returned promise with the same outcome.  wrappedFn itself never
\* rejects, so a run() frame around it proceeds to its finally either way.
wrappedFnSettles(L, op, outcome) == [L EXCEPT !.opState[op] = outcome]

\* the finally of run() (637-639) is ready to execute for op
FinallyReady(L, op) == op \in L.inRun /\ L.opState[op] \in Settled

\* next(), lines 623-631, called from the finally of run() for op: the slot
\* is given back and the head of the queue is invoked directly (fn(), not
\* run(fn)).
next(L, op) ==
    LET released == [L EXCEPT !.inRun = @ \ {op}, !.activeCount = @ - 1]
    IN  IF Len(L.queue) > 0
        THEN [released EXCEPT !.queue = Tail(@),
                              !.opState[Head(L.queue)] = "running",
                              !.startOrder = Append(@, Head(L.queue))]
        ELSE released

\* the limiter variables while no limiter is in use
LimIdle ==
    /\ concurrency = 1
    /\ activeCount = 0
    /\ queue = <<>>
    /\ opState = [op \in Ops |-> "new"]
    /\ inRun = {}
    /\ startOrder = <<>>
    /\ nextOp = 1

\* the grouper variables while createExecutionPlan is not being stepped
PlanIdle ==
    /\ subTasks = <<>>
    /\ completed = {}
    /\ groups = <<>>
    /\ planPc = "idle"

\* task.result while it is undefined
ResultUnset == [defined |-> FALSE, completed |-> {}, failed |-> {}, pdfLink |-> FALSE]

\* the template key while decomposeTaskFallback has not been called
NoKey == [taskType |-> "none", complexity |-> "none", imageCount |-> 0]

\* subTask.agentId while it is undefined
NoAgent == <<"none", 0>>

\* no result, no log entry, no decomposition yet
ReportIdle ==
    /\ result = ResultUnset
    /\ completedAt = 0
    /\ taskLogLevels = {}
    /\ llmFailed = FALSE
    /\ templateKey = NoKey

\* the task variables while no task has been submitted
TaskIdle ==
    /\ useRealLLM = TRUE
    /\ listenerThrows = TRUE
    /\ taskStatus = "none"
    /\ startedAt = 0
    /\ pc = "idle"
    /\ groupIdx = 0
    /\ stStatus = <<>>
    /\ stPc = <<>>
    /\ statusSeq = <<>>
    /\ observed = <<>>
    /\ ReportIdle

\* the executor variables while no executeSubTask call is modelled in detail
ExecIdle ==
    /\ agentCode = <<>>
    /\ agentStatus = <<>>
    /\ agentError = <<>>
    /\ output = <<>>
    /\ primaryCalls = <<>>
    /\ sandboxCalls = <<>>
    /\ primaryOutcome = <<>>
    /\ sandboxOutcome = <<>>
    /\ callOutcome = <<>>
    /\ logs = <<>>

\* the agent variables while discoverOrGenerateAgents is not modelled in detail
DiscIdle ==
    /\ githubAgents = <<>>
    /\ suitable = <<>>
    /\ agents = <<>>
    /\ taskAgents = <<>>
    /\ agentId = <<>>
    /\ discPc = "idle"
    /\ discIdx = 0

\* the listener variables while the notification bus is not modelled in detail
BusIdle ==
    /\ listeners = <<>>
    /\ cursor = 0
    /\ notifyState = "idle"
    /\ invoked = <<>>
    /\ unsubCalled = {}
    /\ stable = {}

\* the server's limiter while it is not modelled
ServerIdle ==
    server = [concurrency |-> 1, activeCount |-> 0, queue |-> <<>>, opState |-> <<>>,
              inRun |-> {}, startOrder |-> <<>>]

\* no tool call
ValidateIdle ==
    /\ toolName = "none"
    /\ args = [filename |-> <<>>, output_filename |-> <<>>]
    /\ validationError = "none"
    /\ toolRan = FALSE

\* no deleteTask call and no task to delete
DeletionIdle ==
    deletion = [inTasks |-> FALSE, authenticated |-> FALSE, deletePc |-> "idle",
                processPc |-> "idle", subTaskPc |-> <<>>, snapshots |-> 0,
                lateSnapshots |-> 0]

\* no execute-stream request
StreamIdle ==
    stream = [pc |-> "idle", malformed |-> <<>>, calls |-> <<>>, events |-> <<>>,
              ended |-> FALSE, late |-> <<>>]

\* the hook before it is mounted
HookIdle ==
    hook = [isLoading |-> FALSE, ref |-> 0, requests |-> <<>>, status |-> "idle",
            mounted |-> FALSE]

\* no response to read
SseIdle ==
    sse = [pc |-> "idle", sent |-> <<>>, wire |-> <<>>, buffer |-> <<>>, applied |-> <<>>]

\* no chatCompletion call
DeepseekIdle ==
    deepseek = [pc |-> "idle", attempt |-> 0, errors |-> <<>>, requests |-> 0]

ServiceIdle == DeletionIdle /\ StreamIdle /\ HookIdle /\ SseIdle /\ DeepseekIdle

DetailIdle == ExecIdle /\ DiscIdle /\ BusIdle /\ ServerIdle /\ ValidateIdle /\ ServiceIdle

(***************************************************************************)
(* SubTask records (src/src/types/index.ts) as far as the grouper and the  *)
(* scheduler read them.  `desc` abstracts the description by the keywords  *)
(* the code searches it for; `action` is input.action.                     *)
(***************************************************************************)
\* an id that no subtask of the input carries
AbsentId == MaxSubTasks + 1

\* The shapes the decomposition produces: LLM and template subtasks carry no
\* input.action (orchestrator.ts 773-780, 1013-1023); the batch subtasks of
\* decomposeImageGenerationTask have 'storyboard' in their description
\* (1083-1099).
Shapes ==
    { [desc |-> "plain", action |-> "none"],
      [desc |-> "image", action |-> "none"],
      [desc |-> "image", action |-> "generate_batch"] }

\* the subtask list of length n with ids 1..n in input order, dependencies d
\* and shapes sh
SubTaskList(n, d, sh) ==
    [i \in 1..n |-> [id |-> i, dependencies |-> d[i],
                     desc |-> sh[i].desc, action |-> sh[i].action]]

\* the dependency lists of n subtasks: any ids of the input (the subtask's
\* own id included) and an id that is absent from it
DependencyChoices(n) == [1..n -> SUBSET ((1..n) \cup {AbsentId})]

Range(s) == { s[i] : i \in 1..Len(s) }

IdsOf(sts) == [i \in 1..Len(sts) |-> sts[i].id]

\* subTasks.find(s => s.id === id)
find(sts, id) ==
    sts[CHOOSE i \in 1..Len(sts) :
            /\ sts[i].id = id
            /\ \A j \in 1..(i - 1) : sts[j].id # id]

(***************************************************************************)
(* Orchestrator.createExecutionPlan (orchestrator.ts 1147-1226)            *)
(***************************************************************************)

\* lines 1152-1158
isImageGenerationTask(sts) ==
    \E i \in 1..Len(sts) : sts[i].desc = "image" \/ sts[i].action = "generate_batch"

\* line 1166
depsSatisfied(st, done) == \A dep \in st.dependencies : dep \in done

\* lines 1163-1171: the subtasks that are not completed and whose
\* dependencies are all completed, in input order
eligibleGroup(sts, done) ==
    LET Test(st) == st.id \notin done /\ depsSatisfied(st, done)
    IN  IdsOf(SelectSeq(sts, Test))

\* lines 1175-1181: the cycle break
remainingGroup(sts, done) ==
    LET Test(st) == st.id \notin done
    IN  IdsOf(SelectSeq(sts, Test))

\* lines 1186-1189
batchTasksOf(sts, group) ==
    LET Test(id) == find(sts, id).action = "generate_batch"
    IN  SelectSeq(group, Test)

\* PlanRound without the cycle break of lines 1175-1181
PlanRound_NoCycleBreak(sts, plan) ==
    LET group == eligibleGroup(sts, plan.completed)
    IN  [groups |-> Append(plan.groups, group),
         completed |-> plan.completed \cup Range(group)]

\* One iteration of the while loop, lines 1161-1214, on plan = [groups, completed].
PlanRound(sts, plan) ==
    LET elig == eligibleGroup(sts, plan.completed)
        group == IF Len(elig) = 0 THEN remainingGroup(sts, plan.completed) ELSE elig
        batchTasks == batchTasksOf(sts, group)
        NotBatch(id) == id \notin Range(batchTasks)
        planningTasks == SelectSeq(group, NotBatch)
        withPlanning == IF Len(planningTasks) > 0
                        THEN Append(plan.groups, planningTasks)
                        ELSE plan.groups
    IN  IF isImageGenerationTask(sts) /\ Len(group) > 1 /\ Len(batchTasks) > 1
        THEN [groups |-> withPlanning \o [i \in 1..Len(batchTasks) |-> <<batchTasks[i]>>],
              completed |-> plan.completed \cup Range(planningTasks) \cup Range(batchTasks)]
        ELSE [groups |-> Append(plan.groups, group),
              completed |-> plan.completed \cup Range(group)]

\* line 1160
PlanLoopTest(sts, plan) == Cardinality(plan.completed) < Len(sts)

\* the while loop, lines 1160-1215
RECURSIVE PlanLoop(_, _)
PlanLoop(sts, plan) ==
    IF PlanLoopTest(sts, plan) THEN PlanLoop(sts, PlanRound(sts, plan)) ELSE plan

\* the parallelGroups of the plan returned for sts, lines 1148-1149 and 1221-1225
createExecutionPlan(sts) == PlanLoop(sts, [groups |-> <<>>, completed |-> {}]).groups

(***************************************************************************)
(* The grouper on its own: one call of createExecutionPlan on an input     *)
(* of at most MaxSubTasks subtasks, one loop iteration per step.            *)
(***************************************************************************)
InitPlan ==
    /\ \E n \in 0..MaxSubTasks :
         \E d \in DependencyChoices(n), sh \in [1..n -> Shapes] :
            subTasks = SubTaskList(n, d, sh)
    /\ completed = {}
    /\ groups = <<>>
    /\ planPc = "loop"
    /\ LimIdle
    /\ TaskIdle
    /\ DetailIdle

PlanIterate ==
    /\ planPc = "loop"
    /\ PlanLoopTest(subTasks, [groups |-> groups, completed |-> completed])
    /\ LET r == PlanRound(subTasks, [groups |-> groups, completed |-> completed])
       IN  groups' = r.groups /\ completed' = r.completed
    /\ UNCHANGED <<subTasks, planPc>>
    /\ UNCHANGED <<limVars, taskVars>>
    /\ UNCHANGED detailVars

PlanReturn ==
    /\ planPc = "loop"
    /\ ~PlanLoopTest(subTasks, [groups |-> groups, completed |-> completed])
    /\ planPc' = "done"
    /\ UNCHANGED <<subTasks, completed, groups>>
    /\ UNCHANGED <<limVars, taskVars>>
    /\ UNCHANGED detailVars

NextPlan == PlanIterate \/ PlanReturn

SpecPlan == InitPlan /\ [][NextPlan]_vars

\* the loop is a synchronous computation: it keeps running until it returns
FairSpecPlan == SpecPlan /\ WF_vars(NextPlan)

(***************************************************************************)
(* Properties of the grouper                                               *)
(***************************************************************************)
PresentIds(sts) == Range(IdsOf(sts))

\* the positions of the groups that contain id
GroupsOf(gs, id) == { g \in 1..Len(gs) : id \in Range(gs[g]) }

\* no chain of dependencies between subtasks of the input leads back to its
\* start: the subtasks can be ranked so that every dependency ranks lower
Acyclic(sts) ==
    \E rank \in [PresentIds(sts) -> 1..Len(sts)] :
        \A i \in 1..Len(sts) :
            \A dep \in sts[i].dependencies \cap PresentIds(sts) :
                rank[dep] < rank[sts[i].id]

\* sts without the dependencies on ids that no subtask of sts carries
StripAbsent(sts) ==
    [i \in 1..Len(sts) |->
        [sts[i] EXCEPT !.dependencies = sts[i].dependencies \cap PresentIds(sts)]]

\* C4: for an acyclic dependency graph (absent ids allowed), every subtask is
\* in a group strictly later than every group holding one of its dependencies.
C4_DependenciesInEarlierGroups ==
    (planPc = "done" /\ Acyclic(subTasks)) =>
        \A i \in 1..Len(subTasks) :
            \A dep \in subTasks[i].dependencies :
                \A g \in GroupsOf(groups, subTasks[i].id), h \in GroupsOf(groups, dep) :
                    h < g

\* C5: a dependency on an id absent from the input counts as satisfied: the
\* plan is the one the same input gets without its absent dependencies, so a
\* subtask with only absent dependencies is grouped with the dependency-free ones.
C5_AbsentDependencySatisfied ==
    planPc = "done" => groups = createExecutionPlan(StripAbsent(subTasks))

PlanIsPartition ==
    /\ \A g \in 1..Len(groups) : Len(groups[g]) > 0
    /\ \A g \in 1..Len(groups) :
         \A a, b \in 1..Len(groups[g]) : a # b => groups[g][a] # groups[g][b]
    /\ \A i \in 1..Len(subTasks) : Cardinality(GroupsOf(groups, subTasks[i].id)) <= 1
    /\ Len(groups) <= Len(subTasks)
    /\ planPc = "done" =>
         \A i \in 1..Len(subTasks) : Cardinality(GroupsOf(groups, subTasks[i].id)) = 1

\* C10: for every input with distinct ids, cyclic ones included, the grouper
\* returns, and what it returns is an ordered partition of the subtask ids: no
\* empty group, every id in exactly one group, at most |subTasks| groups.
C10_PlanTerminatesWithPartition == [](PlanIsPartition) /\ <>(planPc = "done")

\* a returned plan of a cyclic input of full length, with a self-dependency
C10_Witness ==
    /\ planPc = "done"
    /\ Len(subTasks) = MaxSubTasks
    /\ ~Acyclic(subTasks)
    /\ \E i \in 1..Len(subTasks) : subTasks[i].id \in subTasks[i].dependencies
    /\ Len(groups) > 1

\* the state of the loop of createExecutionPlan as PlanRound takes it
PlanState == [groups |-> groups, completed |-> completed]

\* C11: in a round where subtasks remain and none is eligible, all remaining
\* subtasks become one single group, in input order, and grouping ends (every
\* subtask is grouped after that round).
C11_CycleBreakOneGroup ==
    [][(/\ planPc = "loop"
        /\ PlanLoopTest(subTasks, PlanState)
        /\ Len(eligibleGroup(subTasks, completed)) = 0)
       => (/\ groups' = Append(groups, remainingGroup(subTasks, completed))
           /\ completed' = PresentIds(subTasks))]_vars

\* C12: in every round that has eligible subtasks, exactly the eligible
\* subtasks (not yet grouped, all dependencies grouped) become the next group,
\* in input order, whatever the descriptions and input.action values are.
C12_LevelOrderEveryInput ==
    [][(/\ planPc = "loop"
        /\ Len(eligibleGroup(subTasks, completed)) > 0)
       => groups' = Append(groups, eligibleGroup(subTasks, completed))]_vars

(***************************************************************************)
(* The execution groups the ExecutionFlow component displays                *)
(* (src/components/ExecutionFlow.tsx 42-78), on flow = [groups, completed, *)
(* remaining]; the groups are compared by the ids of their subtasks.       *)
(***************************************************************************)

\* lines 52-54: a dependency that names no subtask of the task is satisfied
flowDepsSatisfied(st, sts, done) ==
    \A dep \in st.dependencies :
        dep \in done \/ ~(\E i \in 1..Len(sts) : sts[i].id = dep)

\* one iteration of the while loop, lines 47-74
FlowRound(sts, flow) ==
    LET Ready(st) == flowDepsSatisfied(st, sts, flow.completed)
        NotReady(st) == ~Ready(st)
        ready == SelectSeq(flow.remaining, Ready)
        stillRemaining == SelectSeq(flow.remaining, NotReady)
        breakCycle == Len(ready) = 0 /\ Len(stillRemaining) > 0
        group == IF breakCycle THEN stillRemaining ELSE ready
    IN  [groups |-> Append(flow.groups, IdsOf(group)),
         completed |-> flow.completed \cup Range(IdsOf(group)),
         remaining |-> IF breakCycle THEN <<>> ELSE stillRemaining]

\* the while loop, lines 47-74
RECURSIVE FlowLoop(_, _)
FlowLoop(sts, flow) ==
    IF Len(flow.remaining) > 0 THEN FlowLoop(sts, FlowRound(sts, flow)) ELSE flow

\* executionGroups, lines 42-77
executionGroups(sts) ==
    FlowLoop(sts, [groups |-> <<>>, completed |-> {}, remaining |-> sts]).groups

\* C35: for every subtask list, the groups ExecutionFlow displays are the
\* parallelGroups createExecutionPlan returned: the same groups in the same
\* order.
C35_DisplayedGroupsEqualPlan ==
    planPc = "done" => executionGroups(subTasks) = groups

(***************************************************************************)
(* The limiter on its own: operations 1, 2, ... are submitted in this      *)
(* order at arbitrary moments and settle at arbitrary moments.             *)
(***************************************************************************)
InitLimit ==
    /\ concurrency \in 1..MaxConcurrency
    /\ activeCount = 0
    /\ queue = <<>>
    /\ opState = [op \in Ops |-> "new"]
    /\ inRun = {}
    /\ startOrder = <<>>
    /\ nextOp = 1
    /\ PlanIdle
    /\ TaskIdle
    /\ DetailIdle

Submit ==
    /\ nextOp <= MaxOps
    /\ SetLim(limit(Lim, nextOp))
    /\ nextOp' = nextOp + 1
    /\ UNCHANGED concurrency
    /\ UNCHANGED <<planVars, taskVars>>
    /\ UNCHANGED detailVars

Settle ==
    \E op \in Ops, outcome \in Settled :
        /\ opState[op] = "running"
        /\ SetLim(wrappedFnSettles(Lim, op, outcome))
        /\ UNCHANGED <<concurrency, nextOp>>
        /\ UNCHANGED <<planVars, taskVars>>
        /\ UNCHANGED detailVars

RunFinally ==
    \E op \in Ops :
        /\ FinallyReady(Lim, op)
        /\ SetLim(next(Lim, op))
        /\ UNCHANGED <<concurrency, nextOp>>
        /\ UNCHANGED <<planVars, taskVars>>
        /\ UNCHANGED detailVars

NextLimit == Submit \/ Settle \/ RunFinally

SpecLimit == InitLimit /\ [][NextLimit]_vars

\* every started operation eventually settles, and every continuation that
\* is ready on the event loop eventually runs
FairSpecLimit == SpecLimit /\ WF_vars(Settle) /\ WF_vars(RunFinally)

(***************************************************************************)
(* Properties of the limiter                                               *)
(***************************************************************************)

\* C1: the number of operations started and not yet settled never exceeds
\* the concurrency the limiter was created with.
C1_InFlightBounded == Cardinality(InFlight) <= concurrency

\* C2: every submitted operation eventually starts and the promise returned
\* for it eventually settles (every started operation settles: FairSpecLimit).
C2_EverySubmissionSettles ==
    \A op \in Ops : (opState[op] # "new") ~> (opState[op] \in Settled)

\* C3: operations start in submission order: the start order never lists an
\* operation before one that was submitted earlier.
C3_StartsInSubmissionOrder ==
    \A i, j \in 1..Len(startOrder) : i < j => startOrder[i] < startOrder[j]

\* C22: an operation that rejected has given its slot back like one that
\* resolved: once it has settled and left run(), an operation is only left
\* waiting in the queue while the limiter is full, i.e. while as many
\* operations as the concurrency are running or about to hand over their slot.
C22_RejectionReleasesSlot ==
    \A op \in Ops :
        (opState[op] = "rejected" /\ op \notin inRun /\ queue # <<>>)
            => Cardinality(InFlight \cup inRun) >= concurrency

(***************************************************************************)
(* Orchestrator.processTask, executePlan and executeSubTask                *)
(* (orchestrator.ts 713-858, 1228-1357, 1389-1425) for one submitted task. *)
(* A step runs the code from one await of an external collaborator to the  *)
(* next.  Listeners are arbitrary callbacks (subscribe, 1416-1419) that     *)
(* notifyListeners (1421-1425) calls unprotected, so every call of log or  *)
(* updateTaskStatus either returns or throws what a listener threw.        *)
(***************************************************************************)
\* this.concurrencyLimit = createPLimit(5), line 682
DefaultConcurrency == 5
\* createPLimit(3), line 1242
ImageConcurrency == 3

\* lines 1233-1239
isImageTask(sts) ==
    \E i \in 1..Len(sts) : sts[i].desc \in {"image", "generate batch"}

\* decomposeTaskFallback, lines 1010-1025: a chain of n template subtasks
TemplateList(n) ==
    [i \in 1..n |-> [id |-> i, dependencies |-> IF i > 1 THEN {i - 1} ELSE {},
                     desc |-> "plain", action |-> "none"]]

\* decomposeImageGenerationTask, lines 1034-1106: one storyboard subtask, or
\* a planning subtask followed by a chain of batch subtasks
ImageList(n) ==
    [i \in 1..n |-> [id |-> i, dependencies |-> IF i > 1 THEN {i - 1} ELSE {},
                     desc |-> "image",
                     action |-> IF i > 1 THEN "generate_batch" ELSE "none"]]

\* determineTaskType, lines 860-892
TaskTypes ==
    {"image_generation", "research", "analysis", "content_creation", "development",
     "validation", "data_extraction", "integration", "general"}

\* assessComplexity, lines 939-958
Complexities == {"simple", "medium", "complex"}

\* the lengths of the template lists of `decompositions`, lines 968-1008
templateLength(taskType, complexity) ==
    LET row == CASE taskType = "research" -> <<2, 4, 6>>
                 [] taskType = "analysis" -> <<3, 5, 8>>
                 [] taskType = "content_creation" -> <<2, 5, 9>>
                 [] taskType = "development" -> <<2, 5, 10>>
                 [] taskType = "validation" -> <<2, 5, 9>>
                 [] taskType = "data_extraction" -> <<2, 5, 8>>
                 [] taskType = "integration" -> <<2, 5, 9>>
                 [] taskType = "general" -> <<2, 4, 7>>
    IN  CASE complexity = "simple" -> row[1]
          [] complexity = "medium" -> row[2]
          [] complexity = "complex" -> row[3]

\* estimateImageCount, lines 912-937: the default, `many` or a storyboard,
\* a stated number, a video
ImageCounts == {5, 10, 20, 30}

\* decomposeImageGenerationTask, lines 1034-1106: batchCount is
\* Math.ceil(imageCount / 10)
decomposeImageGenerationTask(imageCount) ==
    IF imageCount <= 5 THEN ImageList(1)
    ELSE ImageList(1 + ((imageCount + 9) \div 10))

\* decomposeTaskFallback, lines 960-1028, for key = [taskType, complexity,
\* imageCount]
decomposeTaskFallback(key) ==
    IF key.taskType = "image_generation"
    THEN decomposeImageGenerationTask(key.imageCount)
    ELSE TemplateList(templateLength(key.taskType, key.complexity))

\* What the fallback reads of the description; the type, the complexity and
\* the image count are functions of the description, which never changes, so
\* they are drawn where they are read.  Only the keys whose subtask list is
\* within the bound of the model are drawn.
FallbackKeys ==
    { key \in [taskType : TaskTypes, complexity : Complexities, imageCount : ImageCounts] :
        /\ Len(decomposeTaskFallback(key)) <= MaxSubTasks
        /\ key.taskType # "image_generation" => key.imageCount = 5 }

\* aggregateResults, lines 1359-1387: the report counts the completed
\* subtasks and lists the subtasks with status `error` as failed; it is
\* built from the subtasks alone and holds no PDF download link
aggregateResults(sts, status) ==
    [defined |-> TRUE,
     completed |-> { sts[i].id : i \in { k \in 1..Len(sts) : status[k] = "completed" } },
     failed |-> { sts[i].id : i \in { k \in 1..Len(sts) : status[k] = "error" } },
     pdfLink |-> FALSE]

\* what api.generatePDF does at 812: return { success: true }, return
\* { success: false }, or throw
PdfOutcomes == {"success", "unsuccessful", "threw"}

\* the subtasks of an LLM decomposition, lines 772-780: no input.action
LLMShapes ==
    { [desc |-> "plain", action |-> "none"], [desc |-> "image", action |-> "none"] }

\* the dependency lists of an executed task: at most MaxDeps ids each
TaskDependencyChoices(n) ==
    [1..n -> { D \in SUBSET ((1..n) \cup {AbsentId}) : Cardinality(D) <= MaxDeps }]

\* the position of the subtask executeSubTask finds for an id, line 1273
subTaskIndex(sts, id) ==
    CHOOSE i \in 1..Len(sts) :
        /\ sts[i].id = id
        /\ \A j \in 1..(i - 1) : sts[j].id # id

\* append s unless it repeats the last entry
recordStatus(seq, s) ==
    IF Len(seq) > 0 /\ seq[Len(seq)] = s THEN seq ELSE Append(seq, s)

\* processTask with its second 'completed' replaced by 'executing'
processTaskStatus_Regress(step) ==
    CASE step = "toAnalyzing" -> "analyzing"
      [] step = "toPlanning" -> "planning"
      [] step = "toExecuting" -> "executing"
      [] step = "toCompleted" -> "completed"
      [] step = "toCompleted2" -> "executing"
      [] step = "catch" -> "error"

\* the status each updateTaskStatus call of processTask stores:
\* lines 751, 765, 802, 805, 824 and 844
processTaskStatus(step) ==
    CASE step = "toAnalyzing" -> "analyzing"
      [] step = "toPlanning" -> "planning"
      [] step = "toExecuting" -> "executing"
      [] step = "toCompleted" -> "completed"
      [] step = "toCompleted2" -> "completed"
      [] step = "catch" -> "error"

\* updateTaskStatus, lines 1389-1399: the status is stored, then the
\* listeners are handed a copy of the task
updateTaskStatus(status) ==
    /\ taskStatus' = status
    /\ startedAt' = IF status = "executing" /\ startedAt = 0
                     THEN Len(recordStatus(statusSeq, status))
                     ELSE startedAt
    /\ statusSeq' = recordStatus(statusSeq, status)
    /\ observed' = recordStatus(observed, status)

\* what a call of log or updateTaskStatus may do: throw what a listener threw
\* (TRUE), or return
ListenerThrows == IF listenerThrows THEN BOOLEAN ELSE {FALSE}

\* a listener threw inside the try of processTask (750-843): control goes to
\* the catch at 843
AfterStep(throws, to) == pc' = IF throws THEN "catch" ELSE to

InitTask ==
    /\ concurrency = DefaultConcurrency
    /\ activeCount = 0
    /\ queue = <<>>
    /\ opState = [op \in Ops |-> "new"]
    /\ inRun = {}
    /\ startOrder = <<>>
    /\ nextOp = 1
    /\ PlanIdle
    /\ useRealLLM \in BOOLEAN
    /\ listenerThrows \in BOOLEAN
    /\ taskStatus = "none"
    /\ startedAt = 0
    /\ pc = "idle"
    /\ groupIdx = 0
    /\ stStatus = <<>>
    /\ stPc = <<>>
    /\ statusSeq = <<>>
    /\ observed = <<>>
    /\ ReportIdle
    /\ DetailIdle

\* submitTask, lines 713-744: the task is stored with status 'pending' and
\* its first log entry, and the listeners are notified (732); a listener that
\* throws there makes submitTask throw before processTask is called
SubmitTask ==
    /\ pc = "idle"
    /\ updateTaskStatus("pending")
    /\ taskLogLevels' = {"info"}
    /\ \E throws \in ListenerThrows : pc' = IF throws THEN "aborted" ELSE "toAnalyzing"
    /\ UNCHANGED <<useRealLLM, listenerThrows, groupIdx, stStatus, stPc>>
    /\ UNCHANGED <<result, completedAt, llmFailed, templateKey>>
    /\ UNCHANGED <<limVars, planVars>>
    /\ UNCHANGED detailVars

\* line 751
ToAnalyzing ==
    /\ pc = "toAnalyzing"
    /\ updateTaskStatus(processTaskStatus("toAnalyzing"))
    /\ \E throws \in ListenerThrows : AfterStep(throws, "analysis")
    /\ UNCHANGED <<useRealLLM, listenerThrows, groupIdx, stStatus, stPc>>
    /\ UNCHANGED <<limVars, planVars>>
    /\ UNCHANGED reportVars
    /\ UNCHANGED detailVars

\* lines 752-763: the log entries of the analysis; a listener may throw at
\* the `info` entry of 752 or at the `success` entry of 763
Analysis ==
    /\ pc = "analysis"
    /\ \E throws \in ListenerThrows :
         /\ AfterStep(throws, "toPlanning")
         /\ \/ taskLogLevels' = taskLogLevels \cup {"info", "success"}
            \/ throws /\ taskLogLevels' = taskLogLevels \cup {"info"}
    /\ UNCHANGED <<useRealLLM, listenerThrows, taskStatus, startedAt, groupIdx, stStatus, stPc, statusSeq, observed>>
    /\ UNCHANGED <<result, completedAt, llmFailed, templateKey>>
    /\ UNCHANGED <<limVars, planVars>>
    /\ UNCHANGED detailVars

\* lines 765-766
ToPlanning ==
    /\ pc = "toPlanning"
    /\ updateTaskStatus(processTaskStatus("toPlanning"))
    /\ \E throws \in ListenerThrows : AfterStep(throws, "decompose")
    /\ UNCHANGED <<useRealLLM, listenerThrows, groupIdx, stStatus, stPc>>
    /\ UNCHANGED <<limVars, planVars>>
    /\ UNCHANGED reportVars
    /\ UNCHANGED detailVars

\* line 789 with subTasks = sts
SetSubTasks(sts) ==
    /\ subTasks' = sts
    /\ stStatus' = [i \in 1..Len(sts) |-> "pending"]
    /\ stPc' = [i \in 1..Len(sts) |-> "idle"]
    /\ pc' = "agents"

\* lines 768-780 and 789, the decomposition collaborator answers
DecomposeLLM ==
    /\ pc = "decompose"
    /\ useRealLLM
    /\ \E n \in 0..MaxSubTasks :
         \E d \in TaskDependencyChoices(n), sh \in LLMShapes :
            SetSubTasks(SubTaskList(n, d, [i \in 1..n |-> sh]))
    /\ UNCHANGED <<useRealLLM, listenerThrows, taskStatus, startedAt, groupIdx, statusSeq, observed>>
    /\ UNCHANGED reportVars
    /\ UNCHANGED <<limVars, completed, groups, planPc>>
    /\ UNCHANGED detailVars

\* the decomposition without the try/catch of 769-784: a failure of the
\* collaborator goes to the catch of processTask
DecomposeFallback_NoCatch ==
    /\ pc = "decompose"
    /\ llmFailed' = useRealLLM
    /\ IF useRealLLM
       THEN /\ pc' = "catch"
            /\ UNCHANGED <<subTasks, stStatus, stPc, templateKey>>
       ELSE \E key \in FallbackKeys :
              /\ templateKey' = key
              /\ SetSubTasks(decomposeTaskFallback(key))
    /\ UNCHANGED <<useRealLLM, listenerThrows, taskStatus, startedAt, groupIdx, statusSeq, observed>>
    /\ UNCHANGED <<result, completedAt, taskLogLevels>>
    /\ UNCHANGED <<limVars, completed, groups, planPc>>
    /\ UNCHANGED detailVars

\* lines 768-789 with the static template: useRealLLM is false (785-787), or
\* the collaborator threw or its result had no subtasks array, which the catch
\* of 781 turns into the template as well
DecomposeFallback ==
    /\ pc = "decompose"
    /\ llmFailed' = useRealLLM
    /\ \E key \in FallbackKeys :
         /\ templateKey' = key
         /\ SetSubTasks(decomposeTaskFallback(key))
    /\ UNCHANGED <<useRealLLM, listenerThrows, taskStatus, startedAt, groupIdx, statusSeq, observed>>
    /\ UNCHANGED <<result, completedAt, taskLogLevels>>
    /\ UNCHANGED <<limVars, completed, groups, planPc>>
    /\ UNCHANGED detailVars

\* lines 790-797: the log entries after the decomposition and
\* discoverOrGenerateAgents, which returns, or it or a listener throws
AssignAgents ==
    /\ pc = "agents"
    /\ \E throws \in BOOLEAN : AfterStep(throws, "plan")
    /\ UNCHANGED <<useRealLLM, listenerThrows, taskStatus, startedAt, groupIdx, stStatus, stPc, statusSeq, observed>>
    /\ UNCHANGED reportVars
    /\ UNCHANGED <<limVars, planVars>>
    /\ UNCHANGED detailVars

\* lines 799-800
Plan ==
    /\ pc = "plan"
    /\ groups' = createExecutionPlan(subTasks)
    /\ \E throws \in ListenerThrows : AfterStep(throws, "toExecuting")
    /\ UNCHANGED <<useRealLLM, listenerThrows, taskStatus, startedAt, groupIdx, stStatus, stPc, statusSeq, observed>>
    /\ UNCHANGED <<limVars, subTasks, completed, planPc>>
    /\ UNCHANGED reportVars
    /\ UNCHANGED detailVars

\* line 802
ToExecuting ==
    /\ pc = "toExecuting"
    /\ updateTaskStatus(processTaskStatus("toExecuting"))
    /\ \E throws \in ListenerThrows : AfterStep(throws, "executePlan")
    /\ UNCHANGED <<useRealLLM, listenerThrows, groupIdx, stStatus, stPc>>
    /\ UNCHANGED <<limVars, planVars>>
    /\ UNCHANGED reportVars
    /\ UNCHANGED detailVars

\* executePlan, lines 1228-1246: the limiter is chosen, a new createPLimit(3)
\* or the limiter of the orchestrator, which no other task is using; the log
\* call of an image task (1245) may throw
ExecutePlanBegin ==
    /\ pc = "executePlan"
    /\ concurrency' = IF isImageTask(subTasks) THEN ImageConcurrency ELSE DefaultConcurrency
    /\ groupIdx' = 1
    /\ \E throws \in ListenerThrows :
         AfterStep(throws /\ isImageTask(subTasks), "groupStart")
    /\ UNCHANGED <<activeCount, queue, opState, inRun, startOrder, nextOp>>
    /\ UNCHANGED <<useRealLLM, listenerThrows, taskStatus, startedAt, stStatus, stPc, statusSeq, observed>>
    /\ UNCHANGED planVars
    /\ UNCHANGED reportVars
    /\ UNCHANGED detailVars

\* where a started executeSubTask call stands: before the settlement of
\* api.executeWithKimi (1298), or, with useRealLLM false, before line 1333
StartPc == IF useRealLLM THEN "primary" ELSE "local"

\* executeSubTask up to its first await, lines 1269-1288, for the ids in S
executeSubTaskStarts(S) ==
    /\ stStatus' = [i \in DOMAIN stStatus |->
                      IF \E id \in S : subTaskIndex(subTasks, id) = i
                      THEN "running" ELSE stStatus[i]]
    /\ stPc' = [i \in DOMAIN stPc |->
                  IF \E id \in S : subTaskIndex(subTasks, id) = i
                  THEN StartPc ELSE stPc[i]]

\* the operations a limiter step started
NewlyStarted(L0, L1) == Range(L1.startOrder) \ Range(L0.startOrder)

\* group.map(subTaskId => effectiveLimit(...)), lines 1254-1256
RECURSIVE limitAll(_, _)
limitAll(L, ids) ==
    IF Len(ids) = 0 THEN L ELSE limitAll(limit(L, Head(ids)), Tail(ids))

\* lines 1248-1256: one group is dispatched through the limiter
GroupStart ==
    /\ pc = "groupStart"
    /\ groupIdx <= Len(groups)
    /\ \/ /\ listenerThrows
          /\ pc' = "catch"
          /\ UNCHANGED <<activeCount, queue, opState, inRun, startOrder, stStatus, stPc>>
       \/ /\ pc' = "groupWait"
          /\ LET L1 == limitAll(Lim, groups[groupIdx])
             IN  /\ SetLim(L1)
                 /\ executeSubTaskStarts(NewlyStarted(Lim, L1))
    /\ UNCHANGED <<concurrency, nextOp>>
    /\ UNCHANGED <<useRealLLM, listenerThrows, taskStatus, startedAt, groupIdx, statusSeq, observed>>
    /\ UNCHANGED planVars
    /\ UNCHANGED reportVars
    /\ UNCHANGED detailVars

\* line 1248: the loop ends and executePlan returns
ExecutePlanReturn ==
    /\ pc = "groupStart"
    /\ groupIdx > Len(groups)
    /\ pc' = "toCompleted"
    /\ UNCHANGED <<useRealLLM, listenerThrows, taskStatus, startedAt, groupIdx, stStatus, stPc, statusSeq, observed>>
    /\ UNCHANGED <<limVars, planVars>>
    /\ UNCHANGED reportVars
    /\ UNCHANGED detailVars

\* Promise.any in place of Promise.all: the first fulfilled promise ends the wait
GroupPromisesFulfilled_Any(g) ==
    \E k \in 1..Len(g) : opState[g[k]] = "resolved" /\ g[k] \notin inRun

\* await Promise.all(groupPromises), line 1258, is fulfilled: every promise
\* of the group is resolved; the finally of run() behind a resolved promise
\* was queued before the continuation of executePlan and has run
GroupPromisesFulfilled(g) ==
    \A k \in 1..Len(g) : opState[g[k]] = "resolved" /\ g[k] \notin inRun

\* lines 1258-1265
GroupSettled ==
    /\ pc = "groupWait"
    /\ GroupPromisesFulfilled(groups[groupIdx])
    /\ groupIdx' = groupIdx + 1
    /\ \E throws \in ListenerThrows : AfterStep(throws, "groupStart")
    /\ UNCHANGED <<useRealLLM, listenerThrows, taskStatus, startedAt, stStatus, stPc, statusSeq, observed>>
    /\ UNCHANGED <<limVars, planVars>>
    /\ UNCHANGED reportVars
    /\ UNCHANGED detailVars

\* line 1258: Promise.all rejects with the first rejected promise, executePlan
\* rejects and processTask continues in its catch
GroupRejected ==
    /\ pc = "groupWait"
    /\ \E k \in 1..Len(groups[groupIdx]) : opState[groups[groupIdx][k]] = "rejected"
    /\ pc' = "catch"
    /\ UNCHANGED <<useRealLLM, listenerThrows, taskStatus, startedAt, groupIdx, stStatus, stPc, statusSeq, observed>>
    /\ UNCHANGED <<limVars, planVars>>
    /\ UNCHANGED reportVars
    /\ UNCHANGED detailVars

\* line 805
ToCompleted ==
    /\ pc = "toCompleted"
    /\ updateTaskStatus(processTaskStatus("toCompleted"))
    /\ \E throws \in ListenerThrows : AfterStep(throws, "pdf")
    /\ UNCHANGED <<useRealLLM, listenerThrows, groupIdx, stStatus, stPc>>
    /\ UNCHANGED <<limVars, planVars>>
    /\ UNCHANGED reportVars
    /\ UNCHANGED detailVars

\* lines 806-822: the result is aggregated, then the PDF collaborator is
\* called; when it returns success the link is appended to task.result (815)
\* unless a listener threw at the log entry of 814, which the catch of 817
\* takes for a PDF failure; a failure is logged as `warn`; a listener may
\* also throw at the log entries of 810, 819 and 822, outside the inner try
Pdf ==
    /\ pc = "pdf"
    /\ completedAt' = Len(statusSeq)
    /\ \E throws \in ListenerThrows, throws814 \in ListenerThrows, pdf \in PdfOutcomes :
         LET linked == pdf = "success" /\ ~throws814
             pdfFailed == pdf = "threw" \/ (pdf = "success" /\ throws814)
         IN  /\ result' = [aggregateResults(subTasks, stStatus) EXCEPT !.pdfLink = linked]
             /\ AfterStep(throws, "toCompleted2")
             /\ \/ taskLogLevels' = taskLogLevels \cup (IF pdfFailed THEN {"warn"} ELSE {})
                \/ throws /\ UNCHANGED taskLogLevels
    /\ UNCHANGED <<useRealLLM, listenerThrows, taskStatus, startedAt, groupIdx, stStatus, stPc, statusSeq, observed>>
    /\ UNCHANGED <<llmFailed, templateKey>>
    /\ UNCHANGED <<limVars, planVars>>
    /\ UNCHANGED detailVars

\* line 824
ToCompleted2 ==
    /\ pc = "toCompleted2"
    /\ updateTaskStatus(processTaskStatus("toCompleted2"))
    /\ \E throws \in ListenerThrows : AfterStep(throws, "sync")
    /\ UNCHANGED <<useRealLLM, listenerThrows, groupIdx, stStatus, stPc>>
    /\ UNCHANGED <<limVars, planVars>>
    /\ UNCHANGED reportVars
    /\ UNCHANGED detailVars

\* lines 825-841: the result is aggregated again, which replaces the value
\* that held the PDF link; the backend sync failure is caught at 838
Sync ==
    /\ pc = "sync"
    /\ result' = aggregateResults(subTasks, stStatus)
    /\ completedAt' = Len(statusSeq)
    /\ \E throws \in ListenerThrows : AfterStep(throws, "final")
    /\ UNCHANGED <<useRealLLM, listenerThrows, taskStatus, startedAt, groupIdx, stStatus, stPc, statusSeq, observed>>
    /\ UNCHANGED <<taskLogLevels, llmFailed, templateKey>>
    /\ UNCHANGED <<limVars, planVars>>
    /\ UNCHANGED detailVars

\* lines 843-854: the status is stored and then the `error` entry is logged;
\* a listener that throws at 844 or at 845 makes processTask reject
Catch ==
    /\ pc = "catch"
    /\ updateTaskStatus(processTaskStatus("catch"))
    /\ \E throwsAt \in (IF listenerThrows THEN {0, 844, 845} ELSE {0}) :
         /\ pc' = IF throwsAt = 0 THEN "final" ELSE "rejected"
         /\ taskLogLevels' = IF throwsAt = 844 THEN taskLogLevels
                             ELSE taskLogLevels \cup {"error"}
    /\ UNCHANGED <<useRealLLM, listenerThrows, groupIdx, stStatus, stPc>>
    /\ UNCHANGED <<result, completedAt, llmFailed, templateKey>>
    /\ UNCHANGED <<limVars, planVars>>
    /\ UNCHANGED detailVars

\* lines 856-857
Final ==
    /\ pc = "final"
    /\ \E throws \in ListenerThrows : pc' = IF throws THEN "rejected" ELSE "finished"
    /\ UNCHANGED <<useRealLLM, listenerThrows, taskStatus, startedAt, groupIdx, stStatus, stPc, statusSeq, observed>>
    /\ UNCHANGED <<limVars, planVars>>
    /\ UNCHANGED reportVars
    /\ UNCHANGED detailVars

(***************************************************************************)
(* executeSubTask after its first await (orchestrator.ts 1290-1357)        *)
(***************************************************************************)

\* lines 1347-1356: the catch; a listener that throws at 1352 or 1356 makes
\* the call reject
ErrorOutcomes ==
    { [status |-> "error", settle |-> "resolved"] }
      \cup (IF listenerThrows THEN { [status |-> "error", settle |-> "rejected"] } ELSE {})

\* a listener throws at 1287-1288 (outside the try: the call rejects with the
\* subtask left running) or at 1293 (inside it: the catch at 1347 runs)
StartOutcomes ==
    { [status |-> "running", settle |-> "rejected"] } \cup ErrorOutcomes

\* lines 1333-1345 and 1355-1356: the subtask is marked completed; a listener
\* that throws at 1345 sends control to the catch, one that throws at 1356
\* makes the call reject
SuccessOutcomes ==
    { [status |-> "completed", settle |-> "resolved"] }
      \cup (IF listenerThrows
            THEN { [status |-> "completed", settle |-> "rejected"] } \cup ErrorOutcomes
            ELSE {})

\* executeSubTask returns or throws for the subtask at position i, and
\* wrappedFn settles the promise of the limiter accordingly
Finish(i, o) ==
    /\ stStatus' = [stStatus EXCEPT ![i] = o.status]
    /\ stPc' = [stPc EXCEPT ![i] = "done"]
    /\ SetLim(wrappedFnSettles(Lim, subTasks[i].id, o.settle))

\* lines 1306-1330 up to the await of the sandbox: a listener throws at 1307,
\* or the agent has code and the sandbox is called (1310), or it has none and
\* a stock result is used (1318)
EnterFallback(i) ==
    \/ listenerThrows /\ \E o \in ErrorOutcomes : Finish(i, o)
    \/ /\ stPc' = [stPc EXCEPT ![i] = "sandbox"]
       /\ UNCHANGED <<stStatus, activeCount, queue, opState, inRun, startOrder>>
    \/ \E o \in SuccessOutcomes : Finish(i, o)

SubTaskUnchanged ==
    /\ UNCHANGED <<concurrency, nextOp>>
    /\ UNCHANGED <<useRealLLM, listenerThrows, taskStatus, startedAt, pc, groupIdx, statusSeq, observed>>
    /\ UNCHANGED planVars
    /\ UNCHANGED reportVars
    /\ UNCHANGED detailVars

\* a listener throws between the start of the call and line 1297, so that no
\* executor is called
StartThrows(i) ==
    /\ stPc[i] \in {"primary", "local"}
    /\ listenerThrows
    /\ \E o \in StartOutcomes : Finish(i, o)
    /\ SubTaskUnchanged

\* api.executeWithKimi returns (1298-1305); a listener that throws at 1305
\* is caught at 1306 like a failure of the primary executor
PrimaryReturns(i) ==
    /\ stPc[i] = "primary"
    /\ \/ \E o \in SuccessOutcomes : Finish(i, o)
       \/ listenerThrows /\ EnterFallback(i)
    /\ SubTaskUnchanged

\* api.executeWithKimi throws, or a listener throws at 1297: caught at 1306
PrimaryThrows(i) ==
    /\ stPc[i] = "primary"
    /\ EnterFallback(i)
    /\ SubTaskUnchanged

\* api.executeInSandbox returns (1310-1325), whatever its success field
SandboxReturns(i) ==
    /\ stPc[i] = "sandbox"
    /\ \E o \in SuccessOutcomes : Finish(i, o)
    /\ SubTaskUnchanged

\* api.executeInSandbox throws (1326-1329)
SandboxThrows(i) ==
    /\ stPc[i] = "sandbox"
    /\ \E o \in ErrorOutcomes : Finish(i, o)
    /\ SubTaskUnchanged

\* useRealLLM is false: lines 1295-1331 are skipped
LocalCompletes(i) ==
    /\ stPc[i] = "local"
    /\ \E o \in SuccessOutcomes : Finish(i, o)
    /\ SubTaskUnchanged

\* the finally of run() for a settled call: next() may start a queued call
SubTaskFinally(i) ==
    /\ FinallyReady(Lim, subTasks[i].id)
    /\ LET L1 == next(Lim, subTasks[i].id)
       IN  /\ SetLim(L1)
           /\ executeSubTaskStarts(NewlyStarted(Lim, L1))
    /\ SubTaskUnchanged

NextTask ==
    \/ SubmitTask
    \/ ToAnalyzing
    \/ Analysis
    \/ ToPlanning
    \/ DecomposeLLM
    \/ DecomposeFallback
    \/ AssignAgents
    \/ Plan
    \/ ToExecuting
    \/ ExecutePlanBegin
    \/ GroupStart
    \/ ExecutePlanReturn
    \/ GroupSettled
    \/ GroupRejected
    \/ ToCompleted
    \/ Pdf
    \/ ToCompleted2
    \/ Sync
    \/ Catch
    \/ Final
    \/ \E i \in DOMAIN stPc :
         \/ StartThrows(i)
         \/ PrimaryReturns(i)
         \/ PrimaryThrows(i)
         \/ SandboxReturns(i)
         \/ SandboxThrows(i)
         \/ LocalCompletes(i)
         \/ SubTaskFinally(i)

SpecTask == InitTask /\ [][NextTask]_vars

(***************************************************************************)
(* executePlan on wide groups: processTask from line 803 on, for a task    *)
(* whose subtasks are independent of each other, so that the plan is one   *)
(* group, of up to MaxGroup subtasks; the limiter then has to queue.       *)
(***************************************************************************)
\* number of subtasks of the one group
MaxGroup == 7
\* number of subtasks of the one group when a listener may throw
MaxGroupThrowing == 4

\* n subtasks without dependencies, as the decomposition collaborator may
\* return them (772-780)
IndependentList(n, sh) == SubTaskList(n, [i \in 1..n |-> {}], [i \in 1..n |-> sh])

\* the state in which processTask calls executePlan (803) when no listener
\* has thrown so far
InitWide ==
    /\ concurrency = DefaultConcurrency
    /\ activeCount = 0
    /\ queue = <<>>
    /\ inRun = {}
    /\ startOrder = <<>>
    /\ nextOp = 1
    /\ completed = {}
    /\ planPc = "idle"
    /\ useRealLLM \in BOOLEAN
    /\ listenerThrows \in BOOLEAN
    /\ taskStatus = "executing"
    /\ startedAt = 4
    /\ pc = "executePlan"
    /\ groupIdx = 0
    /\ statusSeq = <<"pending", "analyzing", "planning", "executing">>
    /\ observed = <<"pending", "analyzing", "planning", "executing">>
    /\ result = ResultUnset
    /\ completedAt = 0
    /\ taskLogLevels = {"info", "success"}
    /\ llmFailed = FALSE
    /\ templateKey = NoKey
    /\ \E n \in 1..(IF listenerThrows THEN MaxGroupThrowing ELSE MaxGroup), sh \in LLMShapes :
         /\ subTasks = IndependentList(n, sh)
         /\ groups = createExecutionPlan(IndependentList(n, sh))
         /\ opState = [op \in 1..n |-> "new"]
         /\ stStatus = [i \in 1..n |-> "pending"]
         /\ stPc = [i \in 1..n |-> "idle"]
    /\ DetailIdle

NextWide ==
    \/ ExecutePlanBegin
    \/ GroupStart
    \/ ExecutePlanReturn
    \/ GroupSettled
    \/ GroupRejected
    \/ ToCompleted
    \/ Pdf
    \/ ToCompleted2
    \/ Sync
    \/ Catch
    \/ Final
    \/ \E i \in DOMAIN stPc :
         \/ StartThrows(i)
         \/ PrimaryReturns(i)
         \/ PrimaryThrows(i)
         \/ SandboxReturns(i)
         \/ SandboxThrows(i)
         \/ LocalCompletes(i)
         \/ SubTaskFinally(i)

SpecWide == InitWide /\ [][NextWide]_vars

(***************************************************************************)
(* Properties of the task state machine and of the scheduling of groups    *)
(***************************************************************************)

\* the subtask at position i takes status `running` in this step
BecomesRunning(i) == stStatus[i] # "running" /\ stStatus'[i] = "running"

\* the position in the plan of the group that holds id (0: none)
GroupIndex(id) ==
    IF GroupsOf(groups, id) = {} THEN 0
    ELSE CHOOSE g \in GroupsOf(groups, id) : \A h \in GroupsOf(groups, id) : g <= h

\* C6: a subtask takes status `running` only when every one of its
\* dependencies that is a subtask of the task has status `completed`.
C6_RunsOnlyAfterDependenciesCompleted ==
    [][\A i \in DOMAIN stStatus :
          BecomesRunning(i) =>
             \A dep \in subTasks[i].dependencies \cap PresentIds(subTasks) :
                stStatus[subTaskIndex(subTasks, dep)] = "completed"]_vars

\* C7: a subtask of a group takes status `running` only when every subtask
\* of every earlier group of the plan has settled to `completed` or `error`.
C7_GroupsRunOneAfterAnother ==
    [][\A i \in DOMAIN stStatus :
          BecomesRunning(i) =>
             \A j \in DOMAIN stStatus :
                (GroupIndex(subTasks[j].id) < GroupIndex(subTasks[i].id))
                   => stStatus[j] \in {"completed", "error"}]_vars

\* a subtask of the second group runs after a first group of several
\* subtasks settled, one of them in error
C7_Witness ==
    \E i \in DOMAIN stStatus :
        /\ stStatus[i] = "running"
        /\ GroupIndex(subTasks[i].id) = 2
        /\ Len(groups[1]) > 1
        /\ \E j, k \in DOMAIN stStatus :
              /\ GroupIndex(subTasks[j].id) = 1
              /\ GroupIndex(subTasks[k].id) = 1
              /\ stStatus[j] = "error"
              /\ stStatus[k] = "completed"

Lifecycle == <<"pending", "analyzing", "planning", "executing", "completed">>

\* the place of a status in the lifecycle
LifecycleRank(st) == CHOOSE k \in 1..Len(Lifecycle) : Lifecycle[k] = st

\* s lists statuses of the lifecycle in lifecycle order, none twice
IsLifecycleSubsequence(s) ==
    /\ \A k \in 1..Len(s) : s[k] \in Range(Lifecycle)
    /\ \A k \in 1..(Len(s) - 1) : LifecycleRank(s[k]) < LifecycleRank(s[k + 1])

\* s is a prefix of the lifecycle followed by `error`
IsLifecyclePrefixThenError(s) ==
    /\ Len(s) > 0
    /\ Len(s) - 1 <= Len(Lifecycle)
    /\ s[Len(s)] = "error"
    /\ \A k \in 1..(Len(s) - 1) : s[k] = Lifecycle[k]

\* C8: the statuses a task takes, as stored and as delivered to listeners,
\* form a subsequence of the lifecycle or a prefix of it followed by `error`.
C8_StatusSequenceMonotonic ==
    /\ IsLifecycleSubsequence(statusSeq) \/ IsLifecyclePrefixThenError(statusSeq)
    /\ IsLifecycleSubsequence(observed) \/ IsLifecyclePrefixThenError(observed)

\* processTask ran to its end and the task went through the whole lifecycle
C8_Witness ==
    /\ pc = "finished"
    /\ taskStatus = "completed"
    /\ statusSeq = Lifecycle
    /\ observed = Lifecycle
    /\ Len(groups) > 1

\* C9: `completed` and `error` are terminal: a task with one of these
\* statuses keeps it in every later step.
C9_TerminalStatusesStay ==
    [][(taskStatus \in {"completed", "error"}) => (taskStatus' = taskStatus)]_vars

\* C13: when processTask is over and a subtask ended in `error`, nothing
\* was aborted: every subtask was executed to `completed` or `error`, the
\* task is `completed`, and the result lists exactly the subtasks in `error`
\* as failed.
C13_FailedSubTaskDoesNotAbort ==
    (/\ pc \in {"finished", "rejected"}
     /\ \E i \in DOMAIN stStatus : stStatus[i] = "error")
    => /\ taskStatus = "completed"
       /\ \A j \in DOMAIN stStatus : stStatus[j] \in {"completed", "error"}
       /\ result.defined
       /\ result.failed = { subTasks[i].id : i \in { k \in DOMAIN stStatus : stStatus[k] = "error" } }

C19_EscapedExceptionEndsInError ==
    (taskStatus = "error" /\ "completed" \notin Range(statusSeq)) =>
        /\ statusSeq[Len(statusSeq)] = "error"
        /\ \A k \in 1..(Len(statusSeq) - 1) : statusSeq[k] # "error"
        /\ "error" \in taskLogLevels
        /\ result = ResultUnset

\* C24: startedAt is set when the task enters `executing` and keeps its
\* value from then on, and completedAt is set when processTask has ended
\* with the task `completed` or `error`.
C24_StartedAtAndCompletedAtSet ==
    /\ [](/\ taskStatus = "executing" => startedAt # 0
          /\ startedAt # 0 => "executing" \in Range(statusSeq)
          /\ (pc \in {"finished", "rejected"} /\ taskStatus \in {"completed", "error"})
                => completedAt # 0)
    /\ [][startedAt # 0 => startedAt' = startedAt]_vars

\* C32: whenever the listeners are handed a snapshot of the task whose status
\* is `completed`, the snapshot carries a defined result and completedAt.
\* (A step that extends `observed` is a call of updateTaskStatus; the
\* snapshot is the task as the step leaves it.)
C32_CompletedSnapshotHasResult ==
    [][(observed' # observed /\ observed'[Len(observed')] = "completed")
          => (result'.defined /\ completedAt' # 0)]_vars

\* C33: a PDF download link once appended to task.result is in every later
\* value of task.result, so that the result stored when processTask finishes
\* holds the link whenever the PDF step succeeded.
C33_FinalResultKeepsPdfLink ==
    [][result.pdfLink => result'.pdfLink]_vars

\* the ids of the batch-generation subtasks of the task
BatchSubTasks ==
    { subTasks[i].id : i \in { k \in 1..Len(subTasks) : subTasks[k].action = "generate_batch" } }

\* C26: for an image-generation task with more than 5 images that was
\* decomposed into at least two batch subtasks, the execution plan lets two
\* batch subtasks run at the same time: since the groups of a plan run one
\* after another, some group holds two of them.
C26_BatchSubTasksInParallel ==
    (/\ templateKey.taskType = "image_generation"
     /\ templateKey.imageCount > 5
     /\ Cardinality(BatchSubTasks) >= 2
     /\ groups # <<>>)
        => \E g \in 1..Len(groups) : Cardinality(Range(groups[g]) \cap BatchSubTasks) >= 2

\* C28: the task submitted reaches `completed` or `error` when every
\* collaborator call returns or throws.  Every step of executePlan makes
\* progress, so the task fails to get there exactly when its processing
\* comes to a halt before: no call is pending and no continuation is ready
\* while the status is neither `completed` nor `error`.
C28_TaskReachesTerminalStatus ==
    (~ENABLED NextWide) => taskStatus \in {"completed", "error"}

\* the subtasks whose status is `running`
RunningSubTasks == { i \in DOMAIN stStatus : stStatus[i] = "running" }

\* line 1242: the limit executePlan applies to the task
effectiveLimit == IF isImageTask(subTasks) THEN ImageConcurrency ELSE DefaultConcurrency

\* C23: while one task is processed, the number of its subtasks with status
\* `running` never exceeds 5, or 3 for an image-generation task, whatever
\* the size of the group.
C23_RunningWithinEffectiveLimit == Cardinality(RunningSubTasks) <= effectiveLimit

(***************************************************************************)
(* Orchestrator.executeSubTask in detail (orchestrator.ts 1269-1357):      *)
(* MaxCalls calls, each for a subtask of its own with an agent of its own  *)
(* (discoverOrGenerateAgents binds one agent to each subtask).  A step     *)
(* runs a call from one await of an executor to the next.  Every log call  *)
(* notifies the listeners, and a listener may throw there: ThrowSites      *)
(* names the lines at which that can happen, and each step draws the set T *)
(* of the sites at which a listener throws during the step.                *)
(***************************************************************************)
\* number of executeSubTask calls in the executor specification
MaxCalls == 2

\* The lines of executeSubTask that call notifyListeners, directly or
\* through log, and at which a throwing listener changes what the call does:
\* 1287 stands for 1287 and 1288 (no statement lies between them), and the
\* log of 1327 is left out, since the catch of 1347 is reached from it whether
\* it throws or line 1328 does.
ThrowSites == {1287, 1293, 1297, 1305, 1307, 1325, 1345, 1352, 1356}

\* number of notifications of one step at which a listener throws
MaxThrows == 2

\* what the listeners do during a step that starts at `line`: the sites after
\* it at which one of them throws
Throws(line) ==
    { T \in SUBSET { s \in ThrowSites : s >= line } : Cardinality(T) <= MaxThrows }

Calls == DOMAIN stPc

\* the state of call i as one value
ExecOf(i) ==
    [id |-> i, status |-> stStatus[i], pc |-> stPc[i],
     agentStatus |-> agentStatus[i], agentError |-> agentError[i],
     output |-> output[i],
     primaryCalls |-> primaryCalls[i], sandboxCalls |-> sandboxCalls[i],
     primaryOutcome |-> primaryOutcome[i], sandboxOutcome |-> sandboxOutcome[i],
     outcome |-> callOutcome[i], logs |-> logs[i]]

SetExec(i, X) ==
    /\ stStatus' = [stStatus EXCEPT ![i] = X.status]
    /\ stPc' = [stPc EXCEPT ![i] = X.pc]
    /\ agentStatus' = [agentStatus EXCEPT ![i] = X.agentStatus]
    /\ agentError' = [agentError EXCEPT ![i] = X.agentError]
    /\ output' = [output EXCEPT ![i] = X.output]
    /\ primaryCalls' = [primaryCalls EXCEPT ![i] = X.primaryCalls]
    /\ sandboxCalls' = [sandboxCalls EXCEPT ![i] = X.sandboxCalls]
    /\ primaryOutcome' = [primaryOutcome EXCEPT ![i] = X.primaryOutcome]
    /\ sandboxOutcome' = [sandboxOutcome EXCEPT ![i] = X.sandboxOutcome]
    /\ callOutcome' = [callOutcome EXCEPT ![i] = X.outcome]
    /\ logs' = [logs EXCEPT ![i] = X.logs]

\* log, lines 1401-1414: the entry is pushed before the listeners are notified
log(X, level, message) ==
    [X EXCEPT !.logs = Append(@, [level |-> level, message |-> message])]

\* an exception leaves executeSubTask: the promise of the call rejects
executeSubTaskRejects(X) == [X EXCEPT !.pc = "done", !.outcome = "rejected"]

\* lines 1355-1356
executeSubTaskEnd(X, T) ==
    IF 1356 \in T THEN executeSubTaskRejects(X)
    ELSE [X EXCEPT !.pc = "done", !.outcome = "resolved"]

\* the catch of lines 1347-1353 without line 1350
executeSubTaskCatch_NoAgentError(X, T) ==
    LET X1 == log([X EXCEPT !.status = "error", !.agentStatus = "error"],
                  "error", "Subtask failed")
    IN  IF 1352 \in T THEN executeSubTaskRejects(X1) ELSE executeSubTaskEnd(X1, T)

\* the catch of lines 1347-1353
executeSubTaskCatch(X, T) ==
    LET X1 == log([X EXCEPT !.status = "error", !.agentStatus = "error",
                            !.agentError = TRUE],
                  "error", "Subtask failed")
    IN  IF 1352 \in T THEN executeSubTaskRejects(X1) ELSE executeSubTaskEnd(X1, T)

\* lines 1333-1345: res is where the value of the local `result` came from
executeSubTaskSuccess(X, res, T) ==
    LET X1 == log([X EXCEPT !.status = "completed", !.output = res,
                            !.agentStatus = "completed"],
                  "success", "Subtask completed")
    IN  IF 1345 \in T THEN executeSubTaskCatch(X1, T) ELSE executeSubTaskEnd(X1, T)

\* lines 1326-1329: the sandbox error is logged and thrown again
sandboxCatch(X, T) == executeSubTaskCatch(log(X, "error", "Sandbox also failed"), T)

\* lines 1325 and 1326: the local `result` is set (res), by the sandbox or by
\* the stock value of 1318-1323
sandboxDone(X, res, T) ==
    LET X1 == log(X, "info", "Sandbox execution successful")
    IN  IF 1325 \in T THEN sandboxCatch(X1, T) ELSE executeSubTaskSuccess(X1, res, T)

\* lines 1306-1323: the catch around the primary executor
primaryCatch(X, hasCode, T) ==
    LET X1 == log(X, "warn", "DeepSeek API failed")
    IN  IF 1307 \in T THEN executeSubTaskCatch(X1, T)
        ELSE IF hasCode
             THEN [X1 EXCEPT !.pc = "sandbox", !.sandboxCalls = @ + 1,
                             !.sandboxOutcome = "pending"]
             ELSE sandboxDone(X1, "stock", T)

\* lines 1304-1305: the primary executor returned
primaryDone(X, hasCode, T) ==
    LET X1 == log(X, "info", "DeepSeek API execution successful")
    IN  IF 1305 \in T THEN primaryCatch(X1, hasCode, T)
        ELSE executeSubTaskSuccess(X1, "primary", T)

\* lines 1283-1298: from the start of the call to the call of the primary
\* executor, or to the end of the call when useRealLLM is false
executeSubTaskBegin(X, real, hasCode, T) ==
    LET X1 == log([X EXCEPT !.status = "running", !.agentStatus = "running"],
                  "info", "Agent executing")
        X2 == log(X1, "info", "Starting execution")
        X3 == log(X2, "info", "Calling DeepSeek API")
    IN  IF 1287 \in T THEN executeSubTaskRejects(X1)
        ELSE IF 1293 \in T THEN executeSubTaskCatch(X2, T)
        ELSE IF ~real THEN executeSubTaskSuccess(X2, "none", T)
        ELSE IF 1297 \in T THEN primaryCatch(X3, hasCode, T)
        ELSE [X3 EXCEPT !.pc = "primary", !.primaryCalls = @ + 1,
                        !.primaryOutcome = "pending"]

InitExec ==
    /\ LimIdle
    /\ PlanIdle
    /\ useRealLLM \in BOOLEAN
    /\ listenerThrows = TRUE
    /\ taskStatus = "executing"
    /\ startedAt = 1
    /\ pc = "executePlan"
    /\ groupIdx = 0
    /\ statusSeq = <<>>
    /\ observed = <<>>
    /\ ReportIdle
    /\ \E n \in 1..MaxCalls :
         /\ agentCode \in [1..n -> BOOLEAN]
         /\ stStatus = [i \in 1..n |-> "pending"]
         /\ stPc = [i \in 1..n |-> "idle"]
         /\ agentStatus = [i \in 1..n |-> "idle"]
         /\ agentError = [i \in 1..n |-> FALSE]
         /\ output = [i \in 1..n |-> "none"]
         /\ primaryCalls = [i \in 1..n |-> 0]
         /\ sandboxCalls = [i \in 1..n |-> 0]
         /\ primaryOutcome = [i \in 1..n |-> "none"]
         /\ sandboxOutcome = [i \in 1..n |-> "none"]
         /\ callOutcome = [i \in 1..n |-> "pending"]
         /\ logs = [i \in 1..n |-> <<>>]
    /\ DiscIdle
    /\ BusIdle
    /\ ServerIdle
    /\ ValidateIdle
    /\ ServiceIdle

ExecUnchanged ==
    /\ UNCHANGED <<limVars, planVars>>
    /\ UNCHANGED <<useRealLLM, listenerThrows, taskStatus, startedAt, pc, groupIdx, statusSeq, observed>>
    /\ UNCHANGED reportVars
    /\ UNCHANGED agentCode
    /\ UNCHANGED <<discVars, busVars, server, validateVars, serviceVars>>

\* executeSubTask is called for subtask i
Begin(i) ==
    /\ stPc[i] = "idle"
    /\ \E T \in Throws(1287) :
         SetExec(i, executeSubTaskBegin(ExecOf(i), useRealLLM, agentCode[i], T))
    /\ ExecUnchanged

\* api.executeWithKimi returns for call i
ApiReturns(i) ==
    /\ stPc[i] = "primary"
    /\ \E T \in Throws(1305) :
         SetExec(i, primaryDone([ExecOf(i) EXCEPT !.primaryOutcome = "returned"],
                                agentCode[i], T))
    /\ ExecUnchanged

\* api.executeWithKimi throws for call i
ApiThrows(i) ==
    /\ stPc[i] = "primary"
    /\ \E T \in Throws(1307) :
         SetExec(i, primaryCatch([ExecOf(i) EXCEPT !.primaryOutcome = "threw"],
                                 agentCode[i], T))
    /\ ExecUnchanged

\* the outcome recorded for a result of api.executeInSandbox: the server
\* answers a failed execution with { success: false } and no HTTP error
sandboxResultOutcome(success) == IF success THEN "returned" ELSE "unsuccessful"

\* api.executeInSandbox returns for call i, with either value of the field
\* `success` of its result; lines 1310-1325 copy the field and do not test it
SandboxResult(i) ==
    /\ stPc[i] = "sandbox"
    /\ \E success \in BOOLEAN, T \in Throws(1325) :
         SetExec(i, sandboxDone([ExecOf(i) EXCEPT
                                    !.sandboxOutcome = sandboxResultOutcome(success)],
                                "sandbox", T))
    /\ ExecUnchanged

\* api.executeInSandbox throws for call i
SandboxError(i) ==
    /\ stPc[i] = "sandbox"
    /\ \E T \in Throws(1327) :
         SetExec(i, sandboxCatch([ExecOf(i) EXCEPT !.sandboxOutcome = "threw"], T))
    /\ ExecUnchanged

NextExec ==
    \E i \in Calls :
        \/ Begin(i)
        \/ ApiReturns(i)
        \/ ApiThrows(i)
        \/ SandboxResult(i)
        \/ SandboxError(i)

SpecExec == InitExec /\ [][NextExec]_vars

(***************************************************************************)
(* Properties of the subtask executor                                      *)
(***************************************************************************)

\* C14: each executor is invoked at most once for a subtask, and when both
\* the primary and the fallback executor have thrown, the call is over with
\* subtask and agent in `error` and the error recorded on the agent.
C14_BothExecutorsThrow ==
    \A i \in Calls :
        /\ primaryCalls[i] <= 1
        /\ sandboxCalls[i] <= 1
        /\ (primaryOutcome[i] = "threw" /\ sandboxOutcome[i] = "threw") =>
              /\ stPc[i] = "done"
              /\ stStatus[i] = "error"
              /\ agentStatus[i] = "error"
              /\ agentError[i]

\* both executors threw for a call, which then returned
C14_Witness ==
    \E i \in Calls :
        /\ primaryOutcome[i] = "threw"
        /\ sandboxOutcome[i] = "threw"
        /\ primaryCalls[i] = 1
        /\ sandboxCalls[i] = 1
        /\ callOutcome[i] = "resolved"

\* l holds a `warn` entry about the primary failure and, after it, a
\* `success` entry
WarnThenSuccess(l) ==
    \E a, b \in 1..Len(l) :
        /\ a < b
        /\ l[a].level = "warn"
        /\ l[a].message = "DeepSeek API failed"
        /\ l[b].level = "success"

\* C15: when the primary executor threw and the fallback executor returned,
\* the subtask and its agent are `completed` and the log of the subtask holds
\* a `warn` entry about the primary failure followed by a `success` entry.
C15_FallbackSucceeds ==
    \A i \in Calls :
        (primaryOutcome[i] = "threw" /\ sandboxOutcome[i] = "returned") =>
            /\ stStatus[i] = "completed"
            /\ agentStatus[i] = "completed"
            /\ WarnThenSuccess(logs[i])

\* C16: a subtask is `completed` only if an executor was run for it and
\* returned, and its output is the result of that executor; in every mode and
\* with or without agent code.
C16_CompletedOnlyAfterExecutorReturned ==
    \A i \in Calls :
        stStatus[i] = "completed" =>
            \/ output[i] = "primary" /\ primaryOutcome[i] = "returned"
            \/ output[i] = "sandbox" /\ sandboxOutcome[i] = "returned"

\* C31: when the primary executor threw and the sandbox fallback returned a
\* result with success = false, the call of executeSubTask, once over, leaves
\* the subtask and its agent in `error`, not `completed`.
C31_UnsuccessfulSandboxIsError ==
    \A i \in Calls :
        (/\ primaryOutcome[i] = "threw"
         /\ sandboxOutcome[i] = "unsuccessful"
         /\ stPc[i] = "done") =>
            /\ stStatus[i] = "error"
            /\ agentStatus[i] = "error"

(***************************************************************************)
(* Orchestrator.discoverOrGenerateAgents (orchestrator.ts 1108-1135) and   *)
(* the assignment of its result to task.agents (792-793), for one task.    *)
(* Agents are named by their ids: <<"github", k>> for the k-th agent of    *)
(* the search result (ids `github_<repo id>`, githubSearcher.ts 243) and   *)
(* <<"generated", i>> for the agent generated for subtask i (a fresh id,   *)
(* AgentGenerator.generateAgent).                                          *)
(***************************************************************************)
\* number of agents the GitHub search returns
MaxGithubAgents == 2

\* githubAgents.find(a => this.isAgentSuitableForSubtask(a, subTask)), 1118-1120:
\* the position of the first suitable agent (0: none)
matchingGithubAgent(i) ==
    IF \E k \in 1..Len(githubAgents) : suitable[<<k, i>>]
    THEN CHOOSE k \in 1..Len(githubAgents) :
            /\ suitable[<<k, i>>]
            /\ \A j \in 1..(k - 1) : ~suitable[<<j, i>>]
    ELSE 0

\* line 1122
useGithubAgent(i) ==
    /\ matchingGithubAgent(i) # 0
    /\ githubAgents[matchingGithubAgent(i)] \notin Range(agents)

\* the iteration with a matching agent bound again instead of a new one generated
\* when it is already in agents
agentOfIteration_Shared(i) ==
    IF matchingGithubAgent(i) # 0
    THEN [id |-> githubAgents[matchingGithubAgent(i)],
          push |-> githubAgents[matchingGithubAgent(i)] \notin Range(agents)]
    ELSE [id |-> <<"generated", i>>, push |-> TRUE]

\* lines 1122-1131: the agent bound to subtask i, and whether it is pushed
agentOfIteration(i) ==
    IF useGithubAgent(i)
    THEN [id |-> githubAgents[matchingGithubAgent(i)], push |-> TRUE]
    ELSE [id |-> <<"generated", i>>, push |-> TRUE]

InitAgents ==
    /\ LimIdle
    /\ PlanIdle
    /\ TaskIdle
    /\ ExecIdle
    /\ BusIdle
    /\ ServerIdle
    /\ ValidateIdle
    /\ ServiceIdle
    /\ \E n \in 1..MaxSubTasks, g \in 0..MaxGithubAgents :
         /\ githubAgents = [k \in 1..g |-> <<"github", k>>]
         /\ suitable \in [(1..g) \X (1..n) -> BOOLEAN]
         /\ agentId = [i \in 1..n |-> NoAgent]
    /\ agents = <<>>
    /\ taskAgents = <<>>
    /\ discPc = "search"
    /\ discIdx = 0

AgentsUnchanged ==
    /\ UNCHANGED <<limVars, planVars, taskVars, execVars, busVars, server, validateVars, serviceVars>>
    /\ UNCHANGED <<githubAgents, suitable>>

\* lines 1112-1113: the log entry and the search; a listener or the search
\* may throw, and discoverOrGenerateAgents rejects
SearchGithub ==
    /\ discPc = "search"
    /\ \E throws \in BOOLEAN :
         /\ discPc' = IF throws THEN "rejected" ELSE "loop"
         /\ discIdx' = IF throws THEN discIdx ELSE 1
    /\ UNCHANGED <<agents, taskAgents, agentId>>
    /\ AgentsUnchanged

\* one iteration of the loop, lines 1115-1132; a listener may throw at the
\* log of 1126, before anything is pushed
AssignAgent ==
    /\ discPc = "loop"
    /\ discIdx <= Len(agentId)
    /\ \E throws \in BOOLEAN :
         IF throws /\ ~useGithubAgent(discIdx)
         THEN /\ discPc' = "rejected"
              /\ UNCHANGED <<agents, agentId, discIdx>>
         ELSE /\ agents' = IF agentOfIteration(discIdx).push
                           THEN Append(agents, agentOfIteration(discIdx).id)
                           ELSE agents
              /\ agentId' = [agentId EXCEPT ![discIdx] = agentOfIteration(discIdx).id]
              /\ discIdx' = discIdx + 1
              /\ UNCHANGED discPc
    /\ UNCHANGED taskAgents
    /\ AgentsUnchanged

\* lines 1134 and 793: the agents are returned and stored in task.agents
ReturnAgents ==
    /\ discPc = "loop"
    /\ discIdx > Len(agentId)
    /\ taskAgents' = agents
    /\ discPc' = "assigned"
    /\ UNCHANGED <<agents, agentId, discIdx>>
    /\ AgentsUnchanged

NextAgents == SearchGithub \/ AssignAgent \/ ReturnAgents

SpecAgents == InitAgents /\ [][NextAgents]_vars

\* C17: once the agents are stored in the task (nothing changes them before
\* the task enters `executing`), task.agents holds exactly one agent per
\* subtask, and every subtask has the agentId of an agent of task.agents that
\* no other subtask has.
C17_OneAgentPerSubTask ==
    discPc = "assigned" =>
        /\ Len(taskAgents) = Len(agentId)
        /\ \A i \in 1..Len(agentId) : agentId[i] \in Range(taskAgents)
        /\ \A i, j \in 1..Len(agentId) : i # j => agentId[i] # agentId[j]

\* the agents are stored, a mix of discovered and generated ones, and a
\* subtask whose matching GitHub agent was taken got a generated agent
C17_Witness ==
    /\ discPc = "assigned"
    /\ \E i, j \in 1..Len(agentId) :
          /\ i < j
          /\ agentId[i][1] = "github"
          /\ matchingGithubAgent(j) # 0
          /\ githubAgents[matchingGithubAgent(j)] = agentId[i]
          /\ agentId[j][1] = "generated"

(***************************************************************************)
(* Orchestrator.subscribe and notifyListeners (orchestrator.ts 1416-1425). *)
(* this.listeners is a Set: add appends an entry unless the value is in    *)
(* the Set, delete removes the entry, and an iteration in progress skips   *)
(* the entries deleted ahead of it and visits the entries appended behind  *)
(* it.  A listener is an arbitrary callback: when called it may call an    *)
(* unsubscribe function or subscribe, and it may throw.                    *)
(***************************************************************************)
\* number of distinct listener functions
MaxListeners == 3
\* number of entries, deleted ones included, of the Set during one iteration
MaxEntries == 4

Listeners == 1..MaxListeners

\* Set.prototype.add, line 1417
setAdd(entries, l) == IF l \in Range(entries) THEN entries ELSE Append(entries, l)

\* Set.prototype.delete, line 1418, while the Set is being iterated: the
\* entry is emptied
setDelete(entries, l) == [k \in 1..Len(entries) |-> IF entries[k] = l THEN 0 ELSE entries[k]]

\* the entries that are left when no iteration is in progress
setEntries(entries) == SelectSeq(entries, LAMBDA e : e # 0)

\* what a listener does when it is called: nothing, the unsubscribe function
\* of listener l, or subscribe(l)
Effects == [op : {"none"}, l : {0}] \cup [op : {"unsubscribe", "subscribe"}, l : Listeners]

\* the listener whose unsubscribe function exists: it subscribed before
hasUnsubscribe(l) == l \in Range(listeners) \/ l \in unsubCalled

effectEnabled(e) ==
    CASE e.op = "none" -> TRUE
      [] e.op = "unsubscribe" -> hasUnsubscribe(e.l)
      [] e.op = "subscribe" -> e.l \in Range(listeners) \/ Len(listeners) < MaxEntries

InitBus ==
    /\ LimIdle
    /\ PlanIdle
    /\ TaskIdle
    /\ ExecIdle
    /\ DiscIdle
    /\ ServerIdle
    /\ ValidateIdle
    /\ ServiceIdle
    /\ listeners = <<>>
    /\ cursor = 0
    /\ notifyState = "idle"
    /\ invoked = [l \in Listeners |-> 0]
    /\ unsubCalled = {}
    /\ stable = {}

BusUnchanged == UNCHANGED <<limVars, planVars, taskVars, execVars, discVars, server, validateVars, serviceVars>>

\* subscribe(listener), lines 1416-1419, called while no notification runs
Subscribe(l) ==
    /\ notifyState # "running"
    /\ listeners' = setAdd(listeners, l)
    /\ unsubCalled' = unsubCalled \ {l}
    /\ UNCHANGED <<cursor, notifyState, invoked, stable>>
    /\ BusUnchanged

\* the function subscribe returned for l, called while no notification runs
Unsubscribe(l) ==
    /\ notifyState # "running"
    /\ hasUnsubscribe(l)
    /\ listeners' = setEntries(setDelete(listeners, l))
    /\ unsubCalled' = unsubCalled \cup {l}
    /\ UNCHANGED <<cursor, notifyState, invoked, stable>>
    /\ BusUnchanged

\* notifyListeners is called, line 1421-1422
NotifyBegin ==
    /\ notifyState # "running"
    /\ notifyState' = "running"
    /\ cursor' = 1
    /\ invoked' = [l \in Listeners |-> 0]
    /\ stable' = Range(listeners)
    /\ UNCHANGED <<listeners, unsubCalled>>
    /\ BusUnchanged

\* one step of the loop of notifyListeners, lines 1422-1424: the iterator
\* moves to the next entry, and if it is not a deleted one the listener is
\* called with a copy of the task; what the listener throws leaves
\* notifyListeners
NotifyVisit ==
    /\ notifyState = "running"
    /\ cursor <= Len(listeners)
    /\ LET l == listeners[cursor]
       IN  IF l = 0
           THEN /\ cursor' = cursor + 1
                /\ UNCHANGED <<listeners, notifyState, invoked, unsubCalled, stable>>
           ELSE /\ invoked' = [invoked EXCEPT ![l] = @ + 1]
                /\ \E e \in { f \in Effects : effectEnabled(f) }, throws \in BOOLEAN :
                     LET entries == CASE e.op = "none" -> listeners
                                      [] e.op = "unsubscribe" -> setDelete(listeners, e.l)
                                      [] e.op = "subscribe" -> setAdd(listeners, e.l)
                     IN  /\ listeners' = IF throws THEN setEntries(entries) ELSE entries
                         /\ unsubCalled' = CASE e.op = "none" -> unsubCalled
                                             [] e.op = "unsubscribe" -> unsubCalled \cup {e.l}
                                             [] e.op = "subscribe" -> unsubCalled \ {e.l}
                         /\ stable' = IF e.op = "unsubscribe" THEN stable \ {e.l} ELSE stable
                         /\ cursor' = IF throws THEN 0 ELSE cursor + 1
                         /\ notifyState' = IF throws THEN "threw" ELSE "running"
    /\ BusUnchanged

\* the iterator is exhausted and notifyListeners returns
NotifyEnd ==
    /\ notifyState = "running"
    /\ cursor > Len(listeners)
    /\ notifyState' = "returned"
    /\ cursor' = 0
    /\ listeners' = setEntries(listeners)
    /\ UNCHANGED <<invoked, unsubCalled, stable>>
    /\ BusUnchanged

NextBus ==
    \/ \E l \in Listeners : Subscribe(l) \/ Unsubscribe(l)
    \/ NotifyBegin
    \/ NotifyVisit
    \/ NotifyEnd

SpecBus == InitBus /\ [][NextBus]_vars

\* C20: a notification that is over has called every listener that was
\* subscribed throughout it exactly once, whatever the listeners called did
\* (unsubscribing themselves or others included); no listener is called more
\* than once in a notification; and a listener is not called once its
\* unsubscribe function has been called.
C20_EveryListenerOnce ==
    /\ [](/\ \A l \in DOMAIN invoked : invoked[l] <= 1
          /\ notifyState \in {"returned", "threw"} => \A l \in stable : invoked[l] = 1)
    /\ [][\A l \in DOMAIN invoked : invoked'[l] > invoked[l] => l \notin unsubCalled]_vars

\* C21: a listener that throws does not end the notification: notifyListeners
\* never ends with a listener's exception, and when it is over every listener
\* that stayed subscribed throughout it has been called.
C21_ThrowingListenerContained ==
    /\ notifyState # "threw"
    /\ notifyState = "returned" => \A l \in stable : invoked[l] >= 1

(***************************************************************************)
(* The server's createPLimit (part_006 22-55) and the module-level limiter *)
(* `limit = createPLimit(5)` (part_006 58), through which the tool phase   *)
(* of POST /api/agent/execute-stream runs every tool call (part_006 633).  *)
(* The tool calls of all requests are numbered in the order of their       *)
(* limit() calls.                                                          *)
(***************************************************************************)
\* const limit = createPLimit(5), part_006 line 58
ServerConcurrency == 5
\* number of tool calls, of all requests together
MaxToolCalls == 7

ToolCalls == 1..MaxToolCalls

\* run(fn), lines 34-41, up to the await: the call is counted and fn invoked
serverRun(S, op) ==
    [S EXCEPT !.activeCount = @ + 1,
              !.inRun = @ \cup {op},
              !.opState[op] = "running",
              !.startOrder = Append(@, op)]

\* limit(fn), lines 43-51
serverLimit(S, op) ==
    IF S.activeCount < S.concurrency
    THEN serverRun(S, op)
    ELSE [S EXCEPT !.queue = Append(@, op), !.opState[op] = "queued"]

\* fn() settles; run() is at its finally
serverFnSettles(S, op, outcome) == [S EXCEPT !.opState[op] = outcome]

\* next() as the orchestrator's createPLimit has it: the dequeued function is
\* invoked outside run()
serverNext_Direct(S, op) ==
    LET released == [S EXCEPT !.inRun = @ \ {op}, !.activeCount = @ - 1]
    IN  IF Len(S.queue) > 0
        THEN [released EXCEPT !.queue = Tail(@),
                              !.opState[Head(S.queue)] = "running",
                              !.startOrder = Append(@, Head(S.queue))]
        ELSE released

\* next(), lines 26-32, called from the finally of run() for op: the slot is
\* given back and the head of the queue is started with run(fn); then the
\* promise limit returned for op settles (run(fn).then(resolve).catch(reject))
serverNext(S, op) ==
    LET released == [S EXCEPT !.inRun = @ \ {op}, !.activeCount = @ - 1]
    IN  IF Len(S.queue) > 0
        THEN serverRun([released EXCEPT !.queue = Tail(@)], Head(S.queue))
        ELSE released

\* the limiter createPLimit(n) returns, for the calls in Calls
serverCreatePLimit(n, calls) ==
    [concurrency |-> n, activeCount |-> 0, queue |-> <<>>,
     opState |-> [op \in calls |-> "new"], inRun |-> {}, startOrder |-> <<>>]

\* the tool executions in flight
ServerInFlight == { op \in DOMAIN server.opState : server.opState[op] = "running" }

InitServer ==
    /\ LimIdle
    /\ PlanIdle
    /\ TaskIdle
    /\ ExecIdle
    /\ DiscIdle
    /\ BusIdle
    /\ ValidateIdle
    /\ ServiceIdle
    /\ server = serverCreatePLimit(ServerConcurrency, ToolCalls)

ServerUnchanged == UNCHANGED <<limVars, planVars, taskVars, execVars, discVars, busVars, validateVars, serviceVars>>

\* a request reaches line 633 for its next tool call
ToolCall ==
    \E op \in ToolCalls :
        /\ server.opState[op] = "new"
        /\ \A o \in 1..(op - 1) : server.opState[o] # "new"
        /\ server' = serverLimit(server, op)
        /\ ServerUnchanged

\* toolExecutor.execute settles for a tool call in flight
ToolSettles ==
    \E op \in ToolCalls, outcome \in Settled :
        /\ server.opState[op] = "running"
        /\ server' = serverFnSettles(server, op, outcome)
        /\ ServerUnchanged

\* the finally of run() for a settled tool call
ToolFinally ==
    \E op \in server.inRun :
        /\ server.opState[op] \in Settled
        /\ server' = serverNext(server, op)
        /\ ServerUnchanged

NextServer == ToolCall \/ ToolSettles \/ ToolFinally

SpecServer == InitServer /\ [][NextServer]_vars

\* every tool execution eventually settles, and every continuation that is
\* ready on the event loop eventually runs
FairSpecServer == SpecServer /\ WF_vars(ToolSettles) /\ WF_vars(ToolFinally)

\* C25: at most 5 tool executions admitted through the module-level limiter
\* are in flight at any instant, and every tool call handed to the limiter
\* eventually runs.
C25_ServerToolCallsBounded ==
    /\ [](Cardinality(ServerInFlight) <= ServerConcurrency)
    /\ \A op \in ToolCalls :
         (server.opState[op] = "queued") ~> (server.opState[op] # "queued")

\* five tool executions are in flight, one is waiting, and one that waited
\* has been started
C25_Witness ==
    /\ Cardinality(ServerInFlight) = ServerConcurrency
    /\ server.queue # <<>>
    /\ \E op \in ServerInFlight : op > ServerConcurrency

(***************************************************************************)
(* createExecutionPlan on the subtask lists the decomposition collaborator *)
(* can return: processTask takes the ids as they come (orchestrator.ts     *)
(* 772-774), so two subtasks may carry the same id.                        *)
(***************************************************************************)
\* the subtask list of length n with the given ids, dependencies and shape
SubTaskListWithIds(n, ids, d, sh) ==
    [i \in 1..n |-> [id |-> ids[i], dependencies |-> d[i],
                     desc |-> sh.desc, action |-> sh.action]]

InitPlanAnyIds ==
    /\ \E n \in 0..MaxSubTasks :
         \E ids \in [1..n -> 1..n], d \in TaskDependencyChoices(n), sh \in LLMShapes :
            subTasks = SubTaskListWithIds(n, ids, d, sh)
    /\ completed = {}
    /\ groups = <<>>
    /\ planPc = "loop"
    /\ LimIdle
    /\ TaskIdle
    /\ DetailIdle

\* one iteration of the while loop; the model follows the loop for one
\* iteration more than a list of distinct ids can take
PlanIterateAnyIds ==
    /\ Len(groups) <= Len(subTasks)
    /\ PlanIterate

NextPlanAnyIds == PlanIterateAnyIds \/ PlanReturn

SpecPlanAnyIds == InitPlanAnyIds /\ [][NextPlanAnyIds]_vars

\* C30: createExecutionPlan terminates on every list, lists with repeated
\* ids included.  The loop test and the ids an iteration adds to `completed`
\* depend on `completed` alone, so the loop terminates exactly when every
\* iteration that is entered adds an id to `completed`.
C30_PlanLoopMakesProgress ==
    (planPc = "loop" /\ PlanLoopTest(subTasks, PlanState))
        => PlanRound(subTasks, PlanState).completed # completed

(***************************************************************************)
(* The orchestrator's createPLimit and the server's, created with the same *)
(* concurrency and driven by the same submissions and completions.  A      *)
(* completion is the settlement of the operation together with the         *)
(* continuations it makes ready: the finally of run() and next().          *)
(***************************************************************************)
InitBoth ==
    /\ concurrency \in 1..MaxConcurrency
    /\ activeCount = 0
    /\ queue = <<>>
    /\ opState = [op \in Ops |-> "new"]
    /\ inRun = {}
    /\ startOrder = <<>>
    /\ nextOp = 1
    /\ PlanIdle
    /\ TaskIdle
    /\ ExecIdle
    /\ DiscIdle
    /\ BusIdle
    /\ ValidateIdle
    /\ ServiceIdle
    /\ server = serverCreatePLimit(concurrency, Ops)

BothUnchanged == UNCHANGED <<planVars, taskVars, execVars, discVars, busVars, validateVars, serviceVars>>

\* the same operation is handed to both limiters
BothSubmit ==
    /\ nextOp <= MaxOps
    /\ SetLim(limit(Lim, nextOp))
    /\ server' = serverLimit(server, nextOp)
    /\ nextOp' = nextOp + 1
    /\ UNCHANGED concurrency
    /\ BothUnchanged

\* an operation that both limiters have started settles in both
BothComplete ==
    \E op \in Ops, outcome \in Settled :
        /\ opState[op] = "running"
        /\ server.opState[op] = "running"
        /\ LET L1 == wrappedFnSettles(Lim, op, outcome)
           IN  SetLim(IF FinallyReady(L1, op) THEN next(L1, op) ELSE L1)
        /\ server' = serverNext(serverFnSettles(server, op, outcome), op)
        /\ UNCHANGED <<concurrency, nextOp>>
        /\ BothUnchanged

NextBoth == BothSubmit \/ BothComplete

SpecBoth == InitBoth /\ [][NextBoth]_vars

\* C29: under the same submissions and completions the two limiters have
\* started the same operations in the same order, hold the same operations
\* in flight and have settled the same promises.
C29_LimitersEquivalent ==
    /\ startOrder = server.startOrder
    /\ InFlight = ServerInFlight
    /\ \A op \in Ops : opState[op] \in Settled <=> server.opState[op] \in Settled

(***************************************************************************)
(* ToolExecutor.execute and _validateArgs (part_005 560-708), as far as    *)
(* the file-name arguments go.  A file name is a string over three kinds   *)
(* of characters: "a" stands for a letter, a digit, `-` or `_`, "." for    *)
(* the dot, and "/" for every other character, the path separators         *)
(* included.                                                               *)
(***************************************************************************)
\* length of a file name
MaxNameLen == 4

Chars == {"a", ".", "/"}

\* '' (the argument is absent or empty) and the names of up to MaxNameLen
\* characters
FileNames == UNION { [1..n -> Chars] : n \in 0..MaxNameLen }

\* the tools of the switch in execute, lines 583-621
Tools == {"web_search", "generate_ppt", "generate_image", "generate_image_batch", "read_file"}

\* /^[a-zA-Z0-9-_.]+\.[a-zA-Z0-9]+$/.test(name), lines 689 and 701: some dot
\* splits the name into a non-empty part without other characters and a
\* non-empty part of letters and digits; `-` and `_` do not occur in the
\* names of the model
validName(name) ==
    \E k \in 2..(Len(name) - 1) :
        /\ name[k] = "."
        /\ \A j \in 1..(k - 1) : name[j] \in {"a", "."}
        /\ \A j \in (k + 1)..Len(name) : name[j] = "a"

\* name.split('.').length, line 694
splitLength(name) == 1 + Cardinality({ k \in 1..Len(name) : name[k] = "." })

\* name.length > 100, lines 680 and 684
tooLong(name) == Len(name) > 100

\* _validateArgs, lines 658-708, for the arguments filename and
\* output_filename (an empty string is falsy: its checks are skipped); the
\* tool is not looked at
validateArgs(tool, a) ==
    IF a.filename # <<>> /\ tooLong(a.filename)
    THEN "Filename exceeds maximum length of 100 characters"
    ELSE IF a.output_filename # <<>> /\ tooLong(a.output_filename)
    THEN "Output filename exceeds maximum length of 100 characters"
    ELSE IF a.filename # <<>> /\ ~validName(a.filename)
    THEN "Invalid filename format"
    ELSE IF a.filename # <<>> /\ splitLength(a.filename) # 2
    THEN "Filename must have exactly one extension"
    ELSE IF a.output_filename # <<>> /\ ~validName(a.output_filename)
    THEN "Invalid output filename format"
    ELSE "null"

InitValidate ==
    /\ LimIdle
    /\ PlanIdle
    /\ TaskIdle
    /\ ExecIdle
    /\ DiscIdle
    /\ BusIdle
    /\ ServerIdle
    /\ ServiceIdle
    /\ toolName \in Tools
    /\ \E f \in FileNames, o \in FileNames : args = [filename |-> f, output_filename |-> o]
    /\ validationError = "none"
    /\ toolRan = FALSE

\* execute(toolName, args, taskId), lines 560-652: a validation error is
\* returned at once, otherwise the tool of the switch runs
Execute ==
    /\ validationError = "none"
    /\ validationError' = validateArgs(toolName, args)
    /\ toolRan' = (validateArgs(toolName, args) = "null")
    /\ UNCHANGED <<toolName, args>>
    /\ UNCHANGED <<limVars, planVars, taskVars, execVars, discVars, busVars, server, serviceVars>>

NextValidate == Execute

SpecValidate == InitValidate /\ [][NextValidate]_vars

\* a name with more than one extension
hasSeveralExtensions(name) == Cardinality({ k \in 1..Len(name) : name[k] = "." }) >= 2

\* a name with a path separator in it, or the component `..`
hasPathTraversal(name) == "/" \in Range(name) \/ name = <<".", ".">>

\* C27: a call with a file-name argument, filename or output_filename, that
\* has more than one extension or a path-traversal component returns an
\* error and does not run the tool, for every tool.
C27_BadFileNamesRejected ==
    (/\ validationError # "none"
     /\ \E name \in {args.filename, args.output_filename} :
          hasSeveralExtensions(name) \/ hasPathTraversal(name))
        => validationError # "null" /\ ~toolRan

(***************************************************************************)
(* Orchestrator.deleteTask (orchestrator.ts 1444-1458) called while        *)
(* processTask (746-858) runs for the same task. The listeners are quiet;  *)
(* the plan has one group of at most MaxInFlight subtasks, which the       *)
(* limiter starts at once. Each action runs from one await to the next.   *)
(***************************************************************************)
MaxInFlight == 2

OrchestratorIdle ==
    LimIdle /\ PlanIdle /\ TaskIdle /\ ExecIdle /\ DiscIdle /\ BusIdle /\ ServerIdle
        /\ ValidateIdle

\* notifyListeners(task), lines 1421-1425, called on the task object the
\* caller holds: the listeners get a snapshot whether or not this.tasks
\* still holds the task
notifyListeners(D) ==
    [D EXCEPT !.snapshots = @ + 1,
              !.lateSnapshots = IF D.deletePc = "returned" THEN @ + 1 ELSE @]

\* log and updateTaskStatus, lines 1389-1414: they look the task up in
\* this.tasks and do nothing when it is gone
logOrUpdate(D) == IF D.inTasks THEN notifyListeners(D) ELSE D

InitDelete ==
    /\ \E n \in 1..MaxInFlight, auth \in BOOLEAN :
         deletion = [inTasks |-> TRUE, authenticated |-> auth, deletePc |-> "idle",
                     processPc |-> "prepare", subTaskPc |-> [i \in 1..n |-> "idle"],
                     snapshots |-> 0, lateSnapshots |-> 0]
    /\ OrchestratorIdle
    /\ StreamIdle
    /\ HookIdle
    /\ SseIdle
    /\ DeepseekIdle

DeleteUnchanged == UNCHANGED <<orchestratorVars, stream, hook, sse, deepseek>>

\* lines 750-802: analysis, decomposition, agents and plan, all reported
\* through updateTaskStatus and log
ProcessPrepare ==
    /\ deletion.processPc = "prepare"
    /\ deletion' = [logOrUpdate(deletion) EXCEPT !.processPc = "executePlan"]
    /\ DeleteUnchanged

\* lines 803-804 and 1229-1251: executePlan returns at once when the task is
\* gone, else it logs the group and awaits
ExecutePlanEnter ==
    /\ deletion.processPc = "executePlan"
    /\ deletion' = IF deletion.inTasks
                   THEN [logOrUpdate(deletion) EXCEPT !.processPc = "groupStart"]
                   ELSE [deletion EXCEPT !.processPc = "completing"]
    /\ DeleteUnchanged

\* lines 1254-1258 with 1270-1287: every executeSubTask call of the group
\* runs to its first await, or returns at 1271 when the task is gone
RECURSIVE startSubTasks(_, _)
startSubTasks(D, i) ==
    IF i > Len(D.subTaskPc) THEN D
    ELSE startSubTasks(IF D.inTasks
                       THEN [logOrUpdate(D) EXCEPT !.subTaskPc[i] = "at1287"]
                       ELSE [D EXCEPT !.subTaskPc[i] = "done"],
                       i + 1)

GroupStartDuringDelete ==
    /\ deletion.processPc = "groupStart"
    /\ deletion' = [startSubTasks(deletion, 1) EXCEPT !.processPc = "groupWait"]
    /\ DeleteUnchanged

\* lines 1288-1294: the call goes on after the log of 1287 with a direct
\* notifyListeners(task), then logs
SubTaskResume(i) ==
    /\ deletion.subTaskPc[i] = "at1287"
    /\ deletion' = [logOrUpdate(notifyListeners(deletion)) EXCEPT !.subTaskPc[i] = "at1294"]
    /\ DeleteUnchanged

\* lines 1296-1305: the executor is called
ExecutorCalled(i) ==
    /\ deletion.subTaskPc[i] = "at1294"
    /\ deletion' = [logOrUpdate(deletion) EXCEPT !.subTaskPc[i] = "executor"]
    /\ DeleteUnchanged

\* lines 1305-1353: the executor settles, and the outcome is logged at 1345
\* or at 1352
ExecutorSettles(i) ==
    /\ deletion.subTaskPc[i] = "executor"
    /\ deletion' = [logOrUpdate(deletion) EXCEPT !.subTaskPc[i] = "at1345"]
    /\ DeleteUnchanged

\* lines 1355-1356: saveTasksToStorage and a direct notifyListeners(task)
SubTaskReturn(i) ==
    /\ deletion.subTaskPc[i] = "at1345"
    /\ deletion' = [notifyListeners(deletion) EXCEPT !.subTaskPc[i] = "done"]
    /\ DeleteUnchanged

\* lines 1260-1266: Promise.all is fulfilled and the group is logged
GroupDone ==
    /\ deletion.processPc = "groupWait"
    /\ \A i \in DOMAIN deletion.subTaskPc : deletion.subTaskPc[i] = "done"
    /\ deletion' = [logOrUpdate(deletion) EXCEPT !.processPc = "completing"]
    /\ DeleteUnchanged

\* lines 805-841: the completion, reported through updateTaskStatus and log
ProcessComplete ==
    /\ deletion.processPc = "completing"
    /\ deletion' = [logOrUpdate(deletion) EXCEPT !.processPc = "final"]
    /\ DeleteUnchanged

\* lines 856-857: saveTasksToStorage and a direct notifyListeners(task)
ProcessFinal ==
    /\ deletion.processPc = "final"
    /\ deletion' = [notifyListeners(deletion) EXCEPT !.processPc = "finished"]
    /\ DeleteUnchanged

\* deleteTask, lines 1444-1449: the task is removed from this.tasks; the call
\* then awaits the backend when authenticated, else it returns true
DeleteTask ==
    /\ deletion.deletePc = "idle"
    /\ deletion' = [deletion EXCEPT
                       !.inTasks = FALSE,
                       !.deletePc = IF deletion.authenticated THEN "sync" ELSE "returned"]
    /\ DeleteUnchanged

\* lines 1449-1457: api.deleteTask settles (a failure is caught) and
\* deleteTask returns true
DeleteTaskReturns ==
    /\ deletion.deletePc = "sync"
    /\ deletion' = [deletion EXCEPT !.deletePc = "returned"]
    /\ DeleteUnchanged

NextDelete ==
    \/ ProcessPrepare
    \/ ExecutePlanEnter
    \/ GroupStartDuringDelete
    \/ \E i \in DOMAIN deletion.subTaskPc :
        \/ SubTaskResume(i)
        \/ ExecutorCalled(i)
        \/ ExecutorSettles(i)
        \/ SubTaskReturn(i)
    \/ GroupDone
    \/ ProcessComplete
    \/ ProcessFinal
    \/ DeleteTask
    \/ DeleteTaskReturns

SpecDelete == InitDelete /\ [][NextDelete]_vars

\* C34: no listener is handed a snapshot of the task after deleteTask has
\* returned true for it, wherever processTask and its executeSubTask calls
\* stood when the task was deleted.
C34_NoSnapshotAfterDelete == deletion.lateSnapshots = 0

(***************************************************************************)
(* The server's POST /api/agent/execute-stream (part_006 527-735), one     *)
(* request, from the await of deepseekService.functionCall on. At most     *)
(* MaxStreamCalls tool calls, fewer than the limiter's ServerConcurrency,  *)
(* so that limit starts each of them at once.                              *)
(***************************************************************************)
MaxStreamCalls == 4

\* sendEvent, lines 545-548: both lines of the event are written to res,
\* whether or not res.end() has been called
sendEvent(S, event) ==
    IF S.ended THEN [S EXCEPT !.late = Append(@, event)]
    ELSE [S EXCEPT !.events = Append(@, event)]

\* res.end()
end(S) == [S EXCEPT !.ended = TRUE]

\* lines 619-633, the callback of toolCalls.map, up to its first await, for
\* the calls from k on: JSON.parse of malformed arguments (621) throws before
\* tool_start is sent and outside the try of 631, so the promise of the call
\* is rejected; otherwise tool_start is sent and limit is awaited
RECURSIVE startToolCalls(_, _)
startToolCalls(S, k) ==
    IF k > Len(S.calls) THEN S
    ELSE startToolCalls(IF S.malformed[k]
                        THEN [S EXCEPT !.calls[k] = "rejected"]
                        ELSE [sendEvent(S, "tool_start") EXCEPT !.calls[k] = "inFlight"],
                        k + 1)

\* lines 551-584: init and the first thought are sent; the model's answer
\* will hold n tool calls, some with arguments that are not valid JSON
InitStream ==
    /\ \E n \in 0..MaxStreamCalls :
         \E bad \in [1..n -> BOOLEAN] :
            stream = [pc |-> "functionCall", malformed |-> bad,
                      calls |-> [k \in 1..n |-> "new"],
                      events |-> <<"init", "thought">>, ended |-> FALSE, late |-> <<>>]
    /\ OrchestratorIdle
    /\ DeletionIdle
    /\ HookIdle
    /\ SseIdle
    /\ DeepseekIdle

StreamUnchanged == UNCHANGED <<orchestratorVars, deletion, hook, sse, deepseek>>

\* lines 584-688: functionCall returns; without tool calls the answer is
\* final and the response ends (592-607); with tool calls they are all
\* started (610-688)
FunctionCallReturns ==
    /\ stream.pc = "functionCall"
    /\ stream' =
         IF Len(stream.calls) = 0
         THEN [end(sendEvent(sendEvent(stream, "thought"), "final")) EXCEPT !.pc = "ended"]
         ELSE [startToolCalls(sendEvent(stream, "thought"), 1) EXCEPT !.pc = "promiseAll"]
    /\ StreamUnchanged

\* functionCall throws: the catch of 724 and the finally of 732
FunctionCallThrows ==
    /\ stream.pc = "functionCall"
    /\ stream' = [end(sendEvent(stream, "error")) EXCEPT !.pc = "ended"]
    /\ StreamUnchanged

\* lines 633-687: the limited toolExecutor.execute of call k settles; a
\* result, a failure and a rejection all send tool_result
ToolCallSettles(k) ==
    /\ stream.calls[k] = "inFlight"
    /\ stream' = [sendEvent(stream, "tool_result") EXCEPT !.calls[k] = "done"]
    /\ StreamUnchanged

\* line 690: Promise.all rejects as soon as one promise is rejected, while
\* the other calls go on; the catch of 724 and the finally of 732
PromiseAllRejects ==
    /\ stream.pc = "promiseAll"
    /\ \E k \in DOMAIN stream.calls : stream.calls[k] = "rejected"
    /\ stream' = [end(sendEvent(stream, "error")) EXCEPT !.pc = "ended"]
    /\ StreamUnchanged

\* lines 690-708: every promise is fulfilled
PromiseAllFulfilled ==
    /\ stream.pc = "promiseAll"
    /\ \A k \in DOMAIN stream.calls : stream.calls[k] = "done"
    /\ stream' = [sendEvent(stream, "thought") EXCEPT !.pc = "chatCompletion"]
    /\ StreamUnchanged

\* lines 708-734: chatCompletion returns and final is sent, or it throws and
\* error is sent; the finally ends the response
ChatCompletionSettles ==
    /\ stream.pc = "chatCompletion"
    /\ \E event \in {"final", "error"} :
         stream' = [end(sendEvent(stream, event)) EXCEPT !.pc = "ended"]
    /\ StreamUnchanged

NextStream ==
    \/ FunctionCallReturns
    \/ FunctionCallThrows
    \/ \E k \in DOMAIN stream.calls : ToolCallSettles(k)
    \/ PromiseAllRejects
    \/ PromiseAllFulfilled
    \/ ChatCompletionSettles

SpecStream == InitStream /\ [][NextStream]_vars

\* C36: once the terminal event has been sent and the response ended, no
\* further event is written for the request.
C36_NoEventAfterEnd == stream.late = <<>>

(***************************************************************************)
(* The useAgentStream hook (info.md 672-835): executeTask and cancelTask   *)
(* called at arbitrary moments, at most MaxRequests requests. A request is *)
(* named by its position in hook.requests; its AbortController is the      *)
(* value of abortControllerRef.current while hook.ref names the request.   *)
(***************************************************************************)
MaxRequests == 4

\* controller.abort(): the pending fetch or read of a request in flight will
\* reject with an AbortError; a request that is over is not affected
abort(H, r) ==
    IF r # 0 /\ H.requests[r] = "inFlight"
    THEN [H EXCEPT !.requests[r] = "aborted"]
    ELSE H

\* the finally of executeTask, lines 806-809, which does not look at which
\* request it belongs to
executeTaskFinally(H) == [H EXCEPT !.isLoading = FALSE, !.ref = 0]

InitHook ==
    /\ hook = [isLoading |-> FALSE, ref |-> 0, requests |-> <<>>, status |-> "idle",
               mounted |-> TRUE]
    /\ OrchestratorIdle
    /\ DeletionIdle
    /\ StreamIdle
    /\ SseIdle
    /\ DeepseekIdle

HookUnchanged == UNCHANGED <<orchestratorVars, deletion, stream, sse, deepseek>>

\* executeTask up to its first await, lines 677-699: the previous controller
\* is aborted, a new one is stored and the request is sent
ExecuteTask ==
    /\ Len(hook.requests) < MaxRequests
    /\ LET H == abort(hook, hook.ref)
       IN  hook' = [H EXCEPT !.status = "idle",
                             !.isLoading = TRUE,
                             !.requests = Append(@, "inFlight"),
                             !.ref = Len(hook.requests) + 1]
    /\ HookUnchanged

\* an event of the stream of request r is applied, lines 714-793 (tool_start
\* for one: the status becomes `executing`)
StreamEvent(r) ==
    /\ hook.requests[r] = "inFlight"
    /\ hook.status = "idle"
    /\ hook' = [hook EXCEPT !.status = "executing"]
    /\ HookUnchanged

\* the stream of request r ends after its `final` or `error` event, or the
\* request fails (lines 795-805), then the finally
RequestSettles(r) ==
    /\ hook.requests[r] = "inFlight"
    /\ \E status \in {"completed", "error"} :
         hook' = executeTaskFinally([hook EXCEPT !.requests[r] = "finished",
                                                 !.status = status])
    /\ HookUnchanged

\* the await of the aborted request r rejects: the catch returns at 797,
\* then the finally
AbortRejects(r) ==
    /\ hook.requests[r] = "aborted"
    /\ hook' = executeTaskFinally([hook EXCEPT !.requests[r] = "finished"])
    /\ HookUnchanged

\* cancelTask, lines 812-822
CancelTask ==
    /\ hook.mounted
    /\ hook' = [abort(hook, hook.ref) EXCEPT !.ref = 0, !.isLoading = FALSE,
                                             !.status = "idle"]
    /\ HookUnchanged

NextHook ==
    \/ ExecuteTask
    \/ \E r \in DOMAIN hook.requests :
        StreamEvent(r) \/ RequestSettles(r) \/ AbortRejects(r)
    \/ CancelTask

SpecHook == InitHook /\ [][NextHook]_vars

\* C37: a request that is in flight and has not been cancelled is the one
\* the hook tracks: isLoading is true and abortControllerRef holds its
\* controller, so that cancelTask aborts it; also after an earlier request
\* was aborted by the executeTask call that started it.
C37_NewRequestStaysTracked ==
    \A r \in DOMAIN hook.requests :
        hook.requests[r] = "inFlight" => (hook.isLoading /\ hook.ref = r)

(***************************************************************************)
(* The SSE parse loop of useAgentStream.executeTask (info.md 711-794)      *)
(* reading what the server's sendEvent wrote (part_006 545-548). The text  *)
(* is a sequence of tokens: "event:", "data:", "NL" for the line feed, and *)
(* one token for an event name or for the JSON text of an event's data     *)
(* (named after its event). A read returns any non-empty prefix of the     *)
(* text that has not been read.                                            *)
(***************************************************************************)
MaxEvents == 2

\* the events of the protocol that the model sends
EventNames == {"init", "tool_start", "final"}

\* sendEvent(event, data): `event: ${event}\n` and `data: ${json}\n\n`
eventText(event) == <<"event:", event, "NL", "data:", event, "NL", "NL">>

RECURSIVE wireText(_)
wireText(events) ==
    IF events = <<>> THEN <<>> ELSE eventText(Head(events)) \o wireText(Tail(events))

\* text.split('\n'), line 721
RECURSIVE split(_)
split(text) ==
    IF \A k \in 1..Len(text) : text[k] # "NL" THEN <<text>>
    ELSE LET k == CHOOSE j \in 1..Len(text) :
                      text[j] = "NL" /\ \A i \in 1..(j - 1) : text[i] # "NL"
         IN  <<SubSeq(text, 1, k - 1)>> \o split(SubSeq(text, k + 1, Len(text)))

\* the body of the for loop, lines 726-793, for one line: P = [currentEvent,
\* applied]; a data line is applied to the state under the case of
\* currentEvent, and not at all when currentEvent matches no case
parseLine(P, line) ==
    IF line # <<>> /\ line[1] = "event:"
    THEN [P EXCEPT !.currentEvent = IF Len(line) > 1 THEN line[2] ELSE ""]
    ELSE IF Len(line) > 1 /\ line[1] = "data:" /\ P.currentEvent \in EventNames
         THEN [P EXCEPT !.applied = Append(@, <<P.currentEvent, line[2]>>)]
         ELSE P

\* the for loop, lines 726-793
RECURSIVE parseLines(_, _)
parseLines(P, lines) ==
    IF lines = <<>> THEN P ELSE parseLines(parseLine(P, Head(lines)), Tail(lines))

\* one iteration of the while loop after a read that returned chunk, lines
\* 720-793: currentEvent is declared inside the loop body (724) and starts
\* as null at every read
parseChunk(S, chunk) ==
    LET lines == split(S.buffer \o chunk)
        P == parseLines([currentEvent |-> "null", applied |-> S.applied],
                        SubSeq(lines, 1, Len(lines) - 1))
    IN  [S EXCEPT !.buffer = lines[Len(lines)], !.applied = P.applied]

InitSse ==
    /\ \E n \in 1..MaxEvents :
         \E events \in [1..n -> EventNames] :
            sse = [pc |-> "reading", sent |-> events, wire |-> wireText(events),
                   buffer |-> <<>>, applied |-> <<>>]
    /\ OrchestratorIdle
    /\ DeletionIdle
    /\ StreamIdle
    /\ HookIdle
    /\ DeepseekIdle

SseUnchanged == UNCHANGED <<orchestratorVars, deletion, stream, hook, deepseek>>

\* reader.read() returns the next n tokens, lines 714-793
Read(n) ==
    /\ sse.pc = "reading"
    /\ n <= Len(sse.wire)
    /\ sse' = [parseChunk(sse, SubSeq(sse.wire, 1, n)) EXCEPT
                  !.wire = SubSeq(sse.wire, n + 1, Len(sse.wire))]
    /\ SseUnchanged

\* reader.read() returns done, lines 714-718
ReadDone ==
    /\ sse.pc = "reading"
    /\ sse.wire = <<>>
    /\ sse' = [sse EXCEPT !.pc = "done"]
    /\ SseUnchanged

NextSse ==
    \/ \E n \in 1..Len(sse.wire) : Read(n)
    \/ ReadDone

SpecSse == InitSse /\ [][NextSse]_vars

\* C38: when the stream has been read to its end, every event the server
\* sent has been applied to the state exactly once, in order and with its own
\* data, however the text was split into reads.
C38_EveryEventAppliedOnce ==
    sse.pc = "done" =>
        sse.applied = [i \in 1..Len(sse.sent) |-> <<sse.sent[i], sse.sent[i]>>]

(***************************************************************************)
(* DeepSeekService.chatCompletion (server/services/deepseek.cjs 44-135)    *)
(* and _shouldRetry (140-163): one call, each request answered or failing  *)
(* in any of the modelled ways.                                            *)
(***************************************************************************)

\* RETRY_CONFIG.maxRetries
maxRetries == 3

\* what the catch of line 112 can catch: the Error thrown at 105 for a
\* response that is not ok, with the status and the response text in its
\* message; the AbortError of the timeout; a network error with a code; any
\* other error (a response that is not JSON, a network error without these
\* codes)
Statuses == {400, 429, 500}

ErrorTexts == {"plain", "mentions429"}

RequestErrors ==
    [kind : {"http"}, status : Statuses, text : ErrorTexts]
        \cup [kind : {"abort", "network", "other"}, status : {0}, text : {"plain"}]

\* error.message.includes(...) for the message `API error ${status}: ${text}`
\* of line 105
includesApiError5(e) == e.kind = "http" /\ e.status \in 500..599

includesApiError429(e) == e.kind = "http" /\ e.status = 429

includesApiError4(e) == e.kind = "http" /\ e.status \in 400..499

includes429(e) == e.kind = "http" /\ (e.status = 429 \/ e.text = "mentions429")

\* _shouldRetry, lines 140-163
shouldRetry(e) ==
    IF e.kind \in {"abort", "network"} THEN TRUE
    ELSE IF includesApiError5(e) THEN TRUE
    ELSE IF includesApiError429(e) THEN TRUE
    ELSE IF includesApiError4(e) /\ ~includes429(e) THEN FALSE
    ELSE TRUE

InitDeepseek ==
    /\ deepseek = [pc |-> "request", attempt |-> 0, errors |-> <<>>, requests |-> 0]
    /\ OrchestratorIdle
    /\ DeletionIdle
    /\ StreamIdle
    /\ HookIdle
    /\ SseIdle

DeepseekUnchanged == UNCHANGED <<orchestratorVars, deletion, stream, hook, sse>>

\* lines 86-110: the request of this attempt is answered with a JSON body
RequestSucceeds ==
    /\ deepseek.pc = "request"
    /\ deepseek' = [deepseek EXCEPT !.requests = @ + 1, !.pc = "returned"]
    /\ DeepseekUnchanged

\* lines 112-133: the request of this attempt fails with e; the last attempt
\* breaks and throws lastError, an error not to be retried is thrown, any
\* other one is followed by the delay
RequestFails(e) ==
    /\ deepseek.pc = "request"
    /\ deepseek' = [deepseek EXCEPT
                       !.requests = @ + 1,
                       !.errors = Append(@, e),
                       !.pc = IF deepseek.attempt = maxRetries THEN "thrown"
                              ELSE IF shouldRetry(e) THEN "delay"
                              ELSE "thrown"]
    /\ DeepseekUnchanged

\* lines 124-125 and 83: the delay is over and the next attempt begins
DelayElapses ==
    /\ deepseek.pc = "delay"
    /\ deepseek' = [deepseek EXCEPT !.attempt = @ + 1, !.pc = "request"]
    /\ DeepseekUnchanged

NextDeepseek ==
    \/ RequestSucceeds
    \/ \E e \in RequestErrors : RequestFails(e)
    \/ DelayElapses

SpecDeepseek == InitDeepseek /\ [][NextDeepseek]_vars

\* a response with a 4xx status other than 429
ClientError(e) == e.kind = "http" /\ e.status \in 400..499 /\ e.status # 429

\* C39: chatCompletion makes at most maxRetries + 1 requests; a client error
\* (4xx other than 429) is thrown at once, with no further request; and when
\* the call throws without having met a client error, it has made all
\* maxRetries + 1 requests and throws the last error (the last entry of
\* errors is what is thrown).
C39_BoundedRetries ==
    /\ deepseek.requests <= maxRetries + 1
    /\ \A k \in 1..Len(deepseek.errors) :
           ClientError(deepseek.errors[k]) =>
               (deepseek.pc = "thrown" /\ k = Len(deepseek.errors))
    /\ (/\ deepseek.pc = "thrown"
        /\ \A k \in 1..Len(deepseek.errors) : ~ClientError(deepseek.errors[k]))
          => deepseek.requests = maxRetries + 1

====
